---- MODULE Spec2Model ----
(***************************************************************************)
(* Dynx reactive cells: a model of the typed-lifecycle implementation      *)
(* (src/dynx.js) and of the legacy implementation (src/src/dynx.js).       *)
(*                                                                         *)
(* JavaScript runs one public call to completion before the next starts,   *)
(* so every public operation is one action.  Its effect is computed by     *)
(* operators that follow the source method by method and thread a record   *)
(* w holding the fields of every cell, the class-wide evaluation stack and *)
(* dispatch queues, and the observations made during the call.             *)
(***************************************************************************)
EXTENDS Integers, Sequences, FiniteSets, TLC

\* ------------------------------------------------------------------ bounds
\* cell values are the integers 0..MaxVal
MaxVal == 1
\* update() activations one public call may start before it counts as diverged
MaxSteps == 12
\* longest filter list the operations build
MaxFilters == 2
\* longest listener list a call may leave behind (obsolete handles stay in a
\* producer's list until that producer next dispatches)
MaxListeners == 5
\* longest update queue the program lets a stuck dispatch leave behind
MaxQueue == 4
\* the most listeners the user's program subscribes to one cell
MaxHandlers == 3
\* deepest evaluation stack a call may leave behind when it throws
MaxStack == 3
\* longest condition list the program gives a conditional
MaxConds == 2
\* the most cells the program of conditionals creates, the parent included
MaxCells == 4

\* --------------------------------------------------------------- DynxType
STATIC == 0
DYNAMIC == 1
INVALID == 2
INHERIT == 3

Types == {STATIC, DYNAMIC, INVALID, INHERIT}
Vals == 0..MaxVal
Cells == {1, 2, 3, 4, 5}
\* the `undefined` pushed on the evaluation stack by an immune block
NoCell == 0

VARIABLES
    impl,               \* "typed" (src/dynx.js) or "legacy" (src/src/dynx.js)
    type,               \* this[TYPE]
    value,              \* this[VALUE] / this._value
    exp,                \* this[EXP] / this._exp
    filters,            \* this.filters
    preupdates,         \* this.preupdates / this['pre-update-listeners']
    updates,            \* this.updates / this['update-listeners']
    postupdates,        \* this.postupdates / this['post-update-listeners']
    typeChanges,        \* this.typeChanges
    updateHandle,       \* TRUE when this.updateHandle is defined
    pendingType,        \* this.pendingType (Absent when deleted)
    childStack,         \* Dynx.childStack / Dynx._childStack
    updatesQueue,       \* Dynx.updatesQueue / Dynx._queue
    typeChangesQueue,   \* Dynx.typeChangesQueue
    updatesInProgress,  \* Dynx.updatesInProgress / ('_queue' in Dynx)
    typeChangesInProgress, \* Dynx.typeChangesInProgress
    initValue,          \* this._init_value (legacy; Absent when deleted)
    isFinal,            \* this._isFinal (legacy)
    pendingConstant,    \* this._pendingConstant (legacy; Absent when deleted)
    made,               \* how many cells the program has created with new
    parent,             \* parentDynx / this._parent of a conditional
    listOf,             \* this._ifThens: which array (named by the cell it
                        \* was created for), NoCell when the field is absent
    conds,              \* the contents of each such array
    elseThen,           \* this._elseThen
    elseParam,          \* the _elseThen parameter the methods of cond close over
    methods,            \* which chaining methods the object carries: "if"
                        \* (if, ifnot, else), "case" (case, default) or ""
    returned,           \* the cell that call returned, NoCell if none
    chain,              \* the chain of calls the program is building: the
                        \* cell its latest call returned and what was given
    lastOp,             \* the public call that produced this state
    log,                \* what that call did, in order
    sched,              \* what that call queued and took off the queue
    reads,              \* the cells each cell read in its latest evaluation
    thrown,             \* that call ended by throwing
    diverged            \* that call never returned

vars == <<impl, type, value, exp, filters, preupdates, updates,
          postupdates, typeChanges, updateHandle, pendingType, childStack,
          updatesQueue, typeChangesQueue, updatesInProgress,
          typeChangesInProgress, initValue, isFinal, pendingConstant,
          made, parent, listOf, conds, elseThen, elseParam, methods,
          returned, chain,
          lastOp, log, sched, reads, thrown, diverged>>

\* ------------------------------------------------------------ vocabulary
Absent == -1
\* the legacy INVALID symbol, as a value
InvalidValue == -2

\* an expression function: what it reads and what it returns
NoExp == [op |-> "none", a |-> 0, b |-> 0, c |-> 0]
ConstExp(k) == [op |-> "const", a |-> k, b |-> 0, c |-> 0]
ReadExp(x) == [op |-> "read", a |-> x, b |-> 0, c |-> 0]
ForkExp(f, x, y) == [op |-> "fork", a |-> f, b |-> x, c |-> y]
SumExp(x, y) == [op |-> "sum", a |-> x, b |-> y, c |-> 0]
ThrowExp == [op |-> "throw", a |-> 0, b |-> 0, c |-> 0]
\* () => owner.executeImmune(body), () => Dynx.immune(body), over the cell t
ImmuneExp(owner, t, body) == [op |-> "immune", a |-> owner, b |-> t, c |-> body]
\* () => { if(!made){ made = true; t.value++; } }, with its captured flag
MakeExp(t) == [op |-> "make", a |-> 0, b |-> t, c |-> 0]
\* the functions handed to an immune call: () => t.value, () => t.value++,
\* and () => owner.executeImmune(() => t.value)
BodyRead == 0
BodyReadWrite == 1
BodyNested == 2
Bodies == {BodyRead, BodyReadWrite, BodyNested}
\* cond.exp / expression of a conditional over the cell p
CondExp(p) == [op |-> "cond", a |-> p, b |-> 0, c |-> 0]
\* an entry {condition, then} of _ifThens; the condition is x => Boolean(x)
\* or, with neg, x => !Boolean(x)
IfThen(neg, then) == [neg |-> neg, then |-> then]
\* a case of a switch: _cases[value] = then, or the entry {condition, then}
\* whose condition is x => x === resolve(value)
Case(v, then) == [key |-> v, then |-> then]
\* cond.exp of a switch over p; p is NoCell when parentDynx is no cell
SwitchExp(p) == [op |-> "switch", a |-> p, b |-> 0, c |-> 0]
\* no chain begun
NoChain ==
    [cell |-> NoCell, parent |-> NoCell, list |-> <<>>, else |-> Absent,
     ok |-> TRUE]
\* a value that is not a function, as an argument of the exp setter
NotCallable == [op |-> "notfunction", a |-> 0, b |-> 0, c |-> 0]

\* a listener: a user callback, or the update handle of a cell
UserListener(n) == [k |-> "user", id |-> n, obs |-> FALSE]
Handle(c) == [k |-> "handle", id |-> c, obs |-> FALSE]

Ev(e, c, n, v) == [ev |-> e, cell |-> c, id |-> n, val |-> v]

Truthy(v) == v # 0

Halted(w) == w.exc \/ w.div

Throw(w) == [w EXCEPT !.exc = TRUE]

Max(a, b) == IF a >= b THEN a ELSE b

\* Math.max with an undefined operand is NaN, which stays NaN
MathMax(a, b) == IF a = Absent \/ b = Absent THEN Absent ELSE Max(a, b)

\* Array.prototype.indexOf, 0 when absent
RECURSIVE IndexFrom(_, _, _)
IndexFrom(s, x, i) ==
    IF i > Len(s) THEN 0
    ELSE IF s[i] = x THEN i
    ELSE IndexFrom(s, x, i + 1)

IndexOf(s, x) == IndexFrom(s, x, 1)

\* Array.prototype.splice(i, 1)
RemoveAt(s, i) == SubSeq(s, 1, i - 1) \o SubSeq(s, i + 1, Len(s))

\* ------------------------------------------------- src/dynx.js (typed)
\* The record w: the variables above as fields, and the running call's own
\* data: ret (what the last getter or function returned), locals (the
\* newValue local of every update() activation, innermost last), exc (an
\* exception is propagating), div (the step budget is spent), steps.
\* A method is written as the composition of its statements, first
\* statement innermost.

RECURSIVE update(_, _, _)
RECURSIVE CALL_LISTENERS(_, _, _)
RECURSIVE RunQueue(_, _)
RECURSIVE CallListener(_, _, _, _)
RECURSIVE CallEach(_, _, _, _, _)
RECURSIVE setType(_, _, _)
RECURSIVE Evaluate(_, _, _)
RECURSIVE ApplyFilters(_, _, _)
RECURSIVE getValue(_, _)
RECURSIVE Read(_, _)
RECURSIVE Assign(_, _, _)
RECURSIVE executeImmune(_, _, _)
RECURSIVE immune(_, _)

QueueOf(name) == IF name = "updates" THEN "updatesQueue" ELSE "typeChangesQueue"
ProgressOf(name) ==
    IF name = "updates" THEN "updatesInProgress" ELSE "typeChangesInProgress"

Return(w, v) == IF Halted(w) THEN w ELSE [w EXCEPT !.ret = v]

\* console.error('[Dynx] Subscription to a STATIC is unnecessary!')
WarnIfStatic(w, c) ==
    IF w.type[c] = STATIC
    THEN [w EXCEPT !.log = Append(@, Ev("warn", c, 0, 0))]
    ELSE w

Insert(w, c, group, func, first) ==
    IF first
    THEN [w EXCEPT ![group][c] = <<func>> \o @]
    ELSE [w EXCEPT ![group][c] = Append(@, func)]

\* [ADD_LiSTENER](group, func, first)
ADD_LISTENER(w, c, group, func, first) ==
    Insert(WarnIfStatic(w, c), c, group, func, first)

\* a removal that takes the last entry of the group, whatever it is
REMOVE_LISTENER_Last(w, c, group, func) ==
    IF w[group][c] # <<>>
    THEN [w EXCEPT ![group][c] = RemoveAt(@, Len(@))]
    ELSE w

\* [REMOVE_LISTENER](group, func)
REMOVE_LISTENER(w, c, group, func) ==
    IF IndexOf(w[group][c], func) # 0
    THEN [w EXCEPT ![group][c] = RemoveAt(@, IndexOf(@, func))]
    ELSE w

\* onUpdateSub(handler, first)
onUpdateSub(w, c, handler, first) == ADD_LISTENER(w, c, "updates", handler, first)

\* onPreUpdateSub(handler, first)
onPreUpdateSub(w, c, handler, first) ==
    ADD_LISTENER(w, c, "preupdates", handler, first)

\* onPostUpdateSub(handler, first)
onPostUpdateSub(w, c, handler, first) ==
    ADD_LISTENER(w, c, "postupdates", handler, first)

\* the obsolete flag of a function object shows in every list that holds it
MarkObsolete(list, c) ==
    [i \in 1..Len(list) |->
        IF list[i].k = "handle" /\ list[i].id = c
        THEN [list[i] EXCEPT !.obs = TRUE]
        ELSE list[i]]

\* one entry of the record of a call's scheduling: the listener lis of the
\* group name of cell c was queued, invoked or (a handle) replaced while
\* depth calls of update() were on the stack
QEv(what, name, c, lis, depth) ==
    [what |-> what, name |-> name, cell |-> c, k |-> lis.k, id |-> lis.id,
     depth |-> depth]

\* [REFRESH_HANDLE]()
REFRESH_HANDLE(w, c) ==
    [w EXCEPT !.updates = [d \in Cells |-> MarkObsolete(w.updates[d], c)],
              !.updateHandle[c] = TRUE,
              !.sched = Append(@, QEv("refresh", "updates", c, Handle(c),
                                      Len(w.locals)))]

\* Dynx.childStack.top
Top(w) ==
    IF Len(w.childStack) > 0 THEN w.childStack[Len(w.childStack)] ELSE NoCell

\* get value(): childStack.length > 0 && top !== undefined && top !== this
Subscribing(w, c) == Top(w) # NoCell /\ Top(w) # c

\* get value(): top.pendingType = Math.max(top.pendingType, this.type)
RaisePending(w, c) ==
    IF Subscribing(w, c) /\ w.type[Top(w)] = INHERIT
    THEN [w EXCEPT !.pendingType[Top(w)] = MathMax(@, w.type[c])]
    ELSE w

\* get value(): this.onUpdateSub(top.updateHandle)
Subscribe(w, c) ==
    IF Subscribing(w, c) /\ w.type[c] # STATIC
    THEN onUpdateSub(w, c, Handle(Top(w)), FALSE)
    ELSE w

\* the evaluating cell has read c
NoteRead(w, c) ==
    IF Subscribing(w, c) THEN [w EXCEPT !.reads[Top(w)] = @ \cup {c}] ELSE w

\* get value()
getValue(w, c) ==
    IF Halted(w) THEN w
    ELSE Return(NoteRead(Subscribe(RaisePending(w, c), c), c), w.value[c])

\* a user's filter function; arithmetic on undefined stays not-a-number
Filter(w, f, x) ==
    IF x = Absent THEN Return(w, Absent)
    ELSE IF x = InvalidValue THEN Throw(w)
    ELSE IF f = "inc" THEN Return(w, (x + 1) % (MaxVal + 1))
    ELSE IF f = "dbl" THEN Return(w, (2 * x) % (MaxVal + 1))
    ELSE Throw(w)

\* the newValue local of the running update()
NewValue(w) == w.locals[Len(w.locals)]

\* newValue = <what was just returned>
AssignNewValue(w) ==
    IF Halted(w) THEN w ELSE [w EXCEPT !.locals[Len(w.locals)] = w.ret]

\* for(let filter of this.filters) newValue = filter.call(this, newValue)
ApplyFilters(w, c, i) ==
    IF Halted(w) \/ i > Len(w.filters[c]) THEN w
    ELSE ApplyFilters(AssignNewValue(Filter(w, w.filters[c][i], NewValue(w))),
                      c, i + 1)

\* fork.value ? in1.value : in2.value, after fork.value was read
ForkBranch(w, e) ==
    IF Halted(w) THEN w
    ELSE IF Truthy(w.ret) THEN Read(w, e.b) ELSE Read(w, e.c)

\* a.value + b.value, after a.value was read
SumWith(w, k) == Return(w, (k + w.ret) % (MaxVal + 1))
SumSecond(w, e) == IF Halted(w) THEN w ELSE SumWith(Read(w, e.b), w.ret)

\* t.value++ after t.value was read: the assignment, and the old value as
\* the result
Increment(w, t) ==
    IF Halted(w) THEN w
    ELSE Return(Assign(w, t, (w.ret + 1) % (MaxVal + 1)), w.ret)

\* the immune block in either implementation
RunImmune(w, e) ==
    IF w.impl = "legacy" THEN immune(w, e) ELSE executeImmune(w, e.a, e)

\* func(...args): the function handed to the immune call runs
CallBody(w, e) ==
    IF Halted(w) THEN w
    ELSE IF e.c = BodyRead THEN Read(w, e.b)
    ELSE IF e.c = BodyReadWrite THEN Increment(Read(w, e.b), e.b)
    ELSE RunImmune(w, ImmuneExp(e.a, e.b, BodyRead))

Invoked(w, e) == [w EXCEPT !.log = Append(@, Ev("immune", e.a, e.c, 0))]

\* mutant: the block pushes the evaluating cell again instead of a marker
PushMarker_Cell(w) == [w EXCEPT !.childStack = Append(@, Top(w))]

\* Dynx.childStack.push(undefined)
PushMarker(w) == [w EXCEPT !.childStack = Append(@, NoCell)]

\* Dynx.childStack.pop()
PopMarker(w) ==
    IF Halted(w) THEN w
    ELSE [w EXCEPT !.childStack = SubSeq(@, 1, Len(@) - 1)]

\* mutant: the immune call does not look at the stack
executeImmune_Unchecked(w, c, e) ==
    IF Halted(w) THEN w
    ELSE PopMarker(CallBody(Invoked(PushMarker(w), e), e))

\* executeImmune(func, ...args)
executeImmune(w, c, e) ==
    IF Halted(w) THEN w
    ELSE IF Top(w) # c THEN Throw(w)
    ELSE PopMarker(CallBody(Invoked(PushMarker(w), e), e))

\* the captured flag of the expression of c is set
MarkMade(w, c) == [w EXCEPT !.exp[c].a = 1]

\* if(!made){ made = true; t.value++; }, returning undefined
MakeOnce(w, c, e) ==
    IF e.a = 1 THEN Return(w, Absent)
    ELSE Return(Increment(Read(MarkMade(w, c), e.b), e.b), Absent)

\* Boolean(x)
ToBoolean(x) == x # 0 /\ x # Absent

\* condition(value)
Holds(entry, x) ==
    IF "key" \in DOMAIN entry THEN x = entry.key
    ELSE IF entry.neg THEN ~ToBoolean(x) ELSE ToBoolean(x)

\* this._ifThens
IfThens(w, c) == IF w.listOf[c] = NoCell THEN <<>> ELSE w.conds[w.listOf[c]]

\* for(let {condition, then} of this._ifThens) if(condition(value)) return
\* then; return this._elseThen
RECURSIVE FirstThen(_, _, _, _)
FirstThen(list, i, x, else) ==
    IF i > Len(list) THEN else
    ELSE IF Holds(list[i], x) THEN list[i].then
    ELSE FirstThen(list, i + 1, x, else)

\* let value = parentDynx.value: the value property of a plain object that
\* has none is undefined
ReadParent(w, p) == IF p = NoCell THEN Return(w, Absent) ELSE Read(w, p)

\* cond.exp, after parentDynx.value was read
CondResult(w, c) ==
    Return(w, FirstThen(IfThens(w, c), 1, w.ret, w.elseThen[c]))

\* this[EXP].call(this): a user's expression function
Evaluate(w, c, e) ==
    IF Halted(w) THEN w
    ELSE IF e.op = "const" THEN Return(w, e.a)
    ELSE IF e.op = "read" THEN Read(w, e.a)
    ELSE IF e.op = "fork" THEN ForkBranch(Read(w, e.a), e)
    ELSE IF e.op = "sum" THEN SumSecond(Read(w, e.a), e)
    ELSE IF e.op = "immune" THEN RunImmune(w, e)
    ELSE IF e.op = "make" THEN MakeOnce(w, c, e)
    ELSE IF e.op = "cond" THEN CondResult(Read(w, e.a), c)
    ELSE IF e.op = "switch" THEN CondResult(ReadParent(w, e.a), c)
    ELSE Throw(w)

\* what a user's listener does: it reads the value of the cell it is
\* attached to and records it
Record(w, name, c, n) ==
    IF Halted(w) THEN w ELSE [w EXCEPT !.log = Append(@, Ev(name, c, n, w.ret))]

\* listener.call(this): an update handle runs its own cell's update()
CallListener(w, name, c, listener) ==
    IF Halted(w) THEN w
    ELSE IF listener.k = "handle" THEN update(w, listener.id, FALSE)
    ELSE Record(Read(w, c), name, c, listener.id)

\* for(let listener of this[group]) listener.call(this)
CallEach(w, name, c, list, i) ==
    IF Halted(w) \/ i > Len(list) THEN w
    ELSE CallEach(CallListener(w, name, c, list[i]), name, c, list, i + 1)

Shift(w, name) == [w EXCEPT ![QueueOf(name)] = Tail(@)]

Queued(name, c, list, depth) ==
    [i \in 1..Len(list) |-> QEv("enqueue", name, c, list[i], depth)]

\* the caller of a listener: the loop that calls it notes the call
Invoke(w, name, c, lis) ==
    [w EXCEPT !.sched = Append(@, QEv("invoke", name, c, lis, Len(w.locals)))]

\* while(listener = Dynx[queueName].shift()) listener()
RunQueue(w, name) ==
    IF Halted(w) \/ w[QueueOf(name)] = <<>> THEN w
    ELSE RunQueue(CallListener(Invoke(Shift(w, name), name,
                                      Head(w[QueueOf(name)]).cell,
                                      Head(w[QueueOf(name)]).listener),
                               name,
                               Head(w[QueueOf(name)]).cell,
                               Head(w[QueueOf(name)]).listener), name)

Live(list) == SelectSeq(list, LAMBDA l : ~l.obs)

Thunks(c, list) == [i \in 1..Len(list) |-> [cell |-> c, listener |-> list[i]]]

\* mutant: the obsolete listeners are pruned from the list but still queued
Enqueue_RunsObsolete(w, c, name) ==
    [w EXCEPT ![name][c] = Live(@),
              ![QueueOf(name)] = @ \o Thunks(c, w[name][c]),
              !.sched = @ \o Queued(name, c, w[name][c], Len(w.locals))]

\* mutant: the listeners are put at the front of the queue
Enqueue_AtFront(w, c, name) ==
    [w EXCEPT ![name][c] = Live(@),
              ![QueueOf(name)] = Thunks(c, Live(w[name][c])) \o @,
              !.sched = @ \o Queued(name, c, Live(w[name][c]), Len(w.locals))]

\* [CALL_LISTENERS]: the loop that queues the listeners and prunes the
\* obsolete ones, lines 242-256
Enqueue(w, c, name) ==
    [w EXCEPT ![name][c] = Live(@),
              ![QueueOf(name)] = @ \o Thunks(c, Live(w[name][c])),
              !.sched = @ \o Queued(name, c, Live(w[name][c]), Len(w.locals))]

BeginDrive(w, name) == [w EXCEPT ![ProgressOf(name)] = TRUE]

\* mutant: the master loop leaves the flag set and the queue in place
EndDrive_Keeps(w, name) == w

EndDrive(w, name) ==
    IF Halted(w) THEN w
    ELSE [w EXCEPT ![ProgressOf(name)] = FALSE, ![QueueOf(name)] = <<>>]

\* mutant: every call runs the queue itself, a loop with recursion
Drive_Nested(w, name) == EndDrive(RunQueue(BeginDrive(w, name), name), name)

\* [CALL_LISTENERS]: the master loop, lines 258-266
Drive(w, name) ==
    IF ~w[ProgressOf(name)]
    THEN EndDrive(RunQueue(BeginDrive(w, name), name), name)
    ELSE w

\* [CALL_LISTENERS](name)
CALL_LISTENERS(w, c, name) ==
    IF Halted(w) THEN w ELSE Drive(Enqueue(w, c, name), name)

\* mutant: leaving INVALID runs no update
UpdateIfWasInvalid_Never(w, c, oldType) == w

\* set type: if(oldType === DynxType.INVALID) this.update(true)
UpdateIfWasInvalid(w, c, oldType) ==
    IF oldType = INVALID THEN update(w, c, TRUE) ELSE w

\* set type(value)
setType(w, c, t) ==
    IF Halted(w) THEN w
    ELSE IF w.type[c] = STATIC THEN Throw(w)
    ELSE IF w.type[c] # t
    THEN CALL_LISTENERS(
            UpdateIfWasInvalid([w EXCEPT !.type[c] = t], c, w.type[c]),
            c, "typeChanges")
    ELSE w

\* update(): entering the method
Enter(w, c) ==
    [w EXCEPT !.steps = @ + 1, !.locals = Append(@, 0),
              !.log = Append(@, Ev("update", c, 0, Len(w.locals) + 1))]

\* update(): returning from the method
Leave(w) ==
    IF Halted(w) THEN w
    ELSE [w EXCEPT !.locals = SubSeq(@, 1, Len(@) - 1)]

\* mutant: the pre-update listeners are not called
PreUpdates_Skipped(w, c) == w

\* update(): the pre-update listeners, lines 169-171
PreUpdates(w, c) == CallEach(w, "preupdates", c, w.preupdates[c], 1)

\* update(): let newValue = this[VALUE], line 174
InitNewValue(w, c) ==
    IF Halted(w) THEN w ELSE [w EXCEPT !.locals[Len(w.locals)] = w.value[c]]

\* update(): lines 177-179
ResetPending(w, c) ==
    IF Halted(w) THEN w
    ELSE IF w.type[c] = INHERIT THEN [w EXCEPT !.pendingType[c] = STATIC]
    ELSE w

Push(w, c) == [w EXCEPT !.childStack = Append(@, c), !.reads[c] = {}]

Pop(w) ==
    IF Halted(w) THEN w
    ELSE [w EXCEPT !.childStack = SubSeq(@, 1, Len(@) - 1)]

\* update(): if(this[EXP]) newValue = this[EXP].call(this)
EvaluateExp(w, c) ==
    IF w.exp[c] # NoExp THEN AssignNewValue(Evaluate(w, c, w.exp[c])) ELSE w

\* update(): the evaluation block, lines 182-197
EvaluateBlock(w, c) ==
    IF Halted(w) THEN w
    ELSE IF w.exp[c] # NoExp \/ w.filters[c] # <<>>
    THEN Pop(ApplyFilters(EvaluateExp(Push(REFRESH_HANDLE(w, c), c), c), c, 1))
    ELSE w

DeletePending(w, c) ==
    IF Halted(w) THEN w ELSE [w EXCEPT !.pendingType[c] = Absent]

\* update(): the type an INHERIT cell resolves to, lines 200-203
ResolveInherit(w, c) ==
    IF Halted(w) THEN w
    ELSE IF w.type[c] = INHERIT
    THEN DeletePending(setType(w, c, w.pendingType[c]), c)
    ELSE w

\* update(): this[VALUE] = newValue
Store(w, c) ==
    IF NewValue(w) # w.value[c]
    THEN [w EXCEPT !.value[c] = NewValue(w),
                   !.log = Append(@, Ev("change", c, 0, NewValue(w)))]
    ELSE w

\* mutant: only a forced update() calls the update listeners
StoreAndNotify_OnlyForced(w, c, force) ==
    IF Halted(w) THEN w
    ELSE IF force THEN CALL_LISTENERS(Store(w, c), c, "updates")
    ELSE IF NewValue(w) # w.value[c] THEN Store(w, c)
    ELSE w

\* mutant: the update listeners are called whether or not the value changed
StoreAndNotify_Always(w, c, force) ==
    IF Halted(w) THEN w ELSE CALL_LISTENERS(Store(w, c), c, "updates")

\* update(): storing the value and calling the listeners, lines 206-211
StoreAndNotify(w, c, force) ==
    IF Halted(w) THEN w
    ELSE IF NewValue(w) # w.value[c] \/ force
    THEN CALL_LISTENERS(Store(w, c), c, "updates")
    ELSE w

\* update(): the post-update listeners, lines 214-216
PostUpdates(w, c) == CallEach(w, "postupdates", c, w.postupdates[c], 1)

\* update(): the references a STATIC cell drops, lines 219-225
Cleanup(w, c) ==
    IF Halted(w) THEN w
    ELSE IF w.type[c] = STATIC
    THEN [w EXCEPT !.preupdates[c] = <<>>, !.exp[c] = NoExp,
                   !.filters[c] = <<>>, !.updates[c] = <<>>,
                   !.postupdates[c] = <<>>]
    ELSE w

\* update(force=false)
update(w, c, force) ==
    IF Halted(w) THEN w
    ELSE IF w.steps >= MaxSteps THEN [w EXCEPT !.div = TRUE]
    ELSE Leave(Cleanup(PostUpdates(StoreAndNotify(ResolveInherit(
            EvaluateBlock(ResetPending(InitNewValue(PreUpdates(
                Enter(w, c), c), c), c), c), c), c, force), c), c))

UpdateUnlessInvalid(w, c, force) ==
    IF w.type[c] # INVALID THEN update(w, c, force) ELSE w

\* set value: if(this[VALUE] !== value){...}
AssignValue(w, c, v) ==
    IF w.value[c] # v
    THEN UpdateUnlessInvalid([w EXCEPT !.value[c] = v], c, TRUE)
    ELSE w

\* mutant: the expression is deleted before the STATIC check
setValue_DeletesFirst(w, c, v) ==
    IF Halted(w) THEN w
    ELSE IF w.type[c] = STATIC THEN Throw([w EXCEPT !.exp[c] = NoExp])
    ELSE AssignValue([w EXCEPT !.exp[c] = NoExp], c, v)

\* set value(value)
setValue(w, c, v) ==
    IF Halted(w) THEN w
    ELSE IF w.type[c] = STATIC THEN Throw(w)
    ELSE AssignValue([w EXCEPT !.exp[c] = NoExp], c, v)

\* mutant: the expression is stored and never evaluated
setExp_NoUpdate(w, c, e) ==
    IF Halted(w) THEN w
    ELSE IF w.type[c] = STATIC THEN Throw(w)
    ELSE IF e = NotCallable THEN Throw(w)
    ELSE [w EXCEPT !.exp[c] = e]

\* set exp(value)
setExp(w, c, e) ==
    IF Halted(w) THEN w
    ELSE IF w.type[c] = STATIC THEN Throw(w)
    ELSE IF e = NotCallable THEN Throw(w)
    ELSE UpdateUnlessInvalid([w EXCEPT !.exp[c] = e], c, FALSE)

\* onFilterSub(handler, first)
onFilterSub(w, c, handler, first) ==
    update(ADD_LISTENER(w, c, "filters", handler, first), c, FALSE)

\* onFilterUnsub(handler)
onFilterUnsub(w, c, handler) ==
    update(REMOVE_LISTENER(w, c, "filters", handler), c, FALSE)

\* finalize(value)
finalize(w, c, v) == setType(setValue(w, c, v), c, STATIC)

\* -------------------------------------------- src/src/dynx.js (legacy)
\* The legacy class keeps the value before filters in _init_value, has no
\* type, and orders its listeners by priority.  The steps that read the
\* same in both files (the evaluation stack, the newValue local, the filter
\* loop, the store) are the operators above.

RECURSIVE Legacy_update(_, _, _)
RECURSIVE _triggerEvent(_, _, _)
RECURSIVE Legacy_RunQueue(_)
RECURSIVE Legacy_CallListener(_, _, _, _)
RECURSIVE Legacy_CallEach(_, _, _, _, _)
RECURSIVE DispatchEach(_, _, _, _)
RECURSIVE on(_, _, _, _, _, _)
RECURSIVE constant(_, _)

LegacyListener(n, p) == [k |-> "user", id |-> n, obs |-> FALSE, priority |-> p]
LegacyHandle(c) == [k |-> "handle", id |-> c, obs |-> FALSE, priority |-> 0]

\* get isConstant()
isConstant(w, c) == w.isFinal[c] /\ w.exp[c] = NoExp

\* Dynx._getEventArrName(event)
_getEventArrName(event) ==
    IF event = "pre-update" THEN "preupdates"
    ELSE IF event = "update" THEN "updates"
    ELSE IF event = "post-update" THEN "postupdates"
    ELSE "filters"

\* func.priority of the element at i; filters are attached with the default
PriorityAt(w, c, arrName, i) ==
    IF arrName = "filters" THEN 0 ELSE w[arrName][c][i].priority

\* mutant: the search stops at an element of the same priority
RECURSIVE FirstLower_OrEqual(_, _, _, _, _)
FirstLower_OrEqual(w, c, arrName, priority, i) ==
    IF i > Len(w[arrName][c]) THEN 0
    ELSE IF PriorityAt(w, c, arrName, i) <= priority THEN i
    ELSE FirstLower_OrEqual(w, c, arrName, priority, i + 1)

\* the first index whose element has a lower priority, 0 when none has
RECURSIVE FirstLower(_, _, _, _, _)
FirstLower(w, c, arrName, priority, i) ==
    IF i > Len(w[arrName][c]) THEN 0
    ELSE IF PriorityAt(w, c, arrName, i) < priority THEN i
    ELSE FirstLower(w, c, arrName, priority, i + 1)

\* arr.splice(i, 0, func)
InsertAt(list, i, func) ==
    SubSeq(list, 1, i - 1) \o <<func>> \o SubSeq(list, i, Len(list))

\* _addListener: the insertion by priority, lines 299-317
InsertByPriority(w, c, arrName, func, priority) ==
    IF Len(w[arrName][c]) = 0
       \/ PriorityAt(w, c, arrName, Len(w[arrName][c])) >= priority
    THEN [w EXCEPT ![arrName][c] = Append(@, func)]
    ELSE [w EXCEPT ![arrName][c] =
            InsertAt(@, FirstLower(w, c, arrName, priority, 1), func)]

\* this::func(this._value), for a listener attached with immediate
CallImmediate(w, c, func, immediate) ==
    IF immediate THEN Record(Read(w, c), "immediate", c, func.id) ELSE w

\* _addListener: what a constant cell does with a subscription
RejectListener(w, c, func, immediate) ==
    IF immediate THEN CallImmediate(w, c, func, immediate)
    ELSE [w EXCEPT !.log = Append(@, Ev("warn", c, 0, 0))]

\* _addListener(arrName, func, immediate, priority)
_addListener(w, c, arrName, func, immediate, priority) ==
    IF isConstant(w, c) THEN RejectListener(w, c, func, immediate)
    ELSE CallImmediate(InsertByPriority(w, c, arrName, func, priority),
                       c, func, immediate)

\* _removeListener(arrName, func)
_removeListener(w, c, arrName, func) ==
    IF IndexOf(w[arrName][c], func) # 0
    THEN [w EXCEPT ![arrName][c] = RemoveAt(@, IndexOf(@, func))]
    ELSE w

\* on / off: if(event === 'filter') this.update()
UpdateIfFilter(w, c, event) ==
    IF event = "filter" THEN Legacy_update(w, c, FALSE) ELSE w

\* on(event, handler, immediate, priority)
on(w, c, event, handler, immediate, priority) ==
    IF Halted(w) THEN w
    ELSE IF event = "filter" /\ immediate THEN Throw(w)
    ELSE UpdateIfFilter(
            _addListener(w, c, _getEventArrName(event), handler, immediate,
                         priority),
            c, event)

\* off(event, handler)
off(w, c, event, handler) ==
    IF Halted(w) THEN w
    ELSE UpdateIfFilter(
            _removeListener(w, c, _getEventArrName(event), handler), c, event)

\* _refreshHandle()
_refreshHandle(w, c) ==
    [w EXCEPT !.updates = [d \in Cells |-> MarkObsolete(w.updates[d], c)],
              !.updateHandle[c] = TRUE]

\* get value(): childStack.length > 0 && !this.isConstant && top !==
\* undefined && top !== this
Legacy_Subscribing(w, c) == Subscribing(w, c) /\ ~isConstant(w, c)

\* get value(): if(top.isFinal) top._pendingConstant = false
ClearPendingConstant(w) ==
    IF w.isFinal[Top(w)] THEN [w EXCEPT !.pendingConstant[Top(w)] = 0] ELSE w

\* get value(): this.on('update', top.updateHandle)
Legacy_Subscribe(w, c) ==
    IF Legacy_Subscribing(w, c)
    THEN on(ClearPendingConstant(w), c, "update", LegacyHandle(Top(w)),
            FALSE, 0)
    ELSE w

Legacy_NoteRead(w, c) ==
    IF Legacy_Subscribing(w, c)
    THEN [w EXCEPT !.reads[Top(w)] = @ \cup {c}]
    ELSE w

\* get value()
Legacy_getValue(w, c) ==
    IF Halted(w) THEN w
    ELSE Return(Legacy_NoteRead(Legacy_Subscribe(w, c), c), w.value[c])

\* this::lis(...args): an update handle runs its own cell's update()
Legacy_CallListener(w, name, c, lis) ==
    IF Halted(w) THEN w
    ELSE IF lis.k = "handle" THEN Legacy_update(w, lis.id, FALSE)
    ELSE Record(Read(w, c), name, c, lis.id)

\* for(let lis of arr) this::lis(...args)
Legacy_CallEach(w, name, c, list, i) ==
    IF Halted(w) \/ i > Len(list) THEN w
    ELSE Legacy_CallEach(Legacy_CallListener(w, name, c, list[i]),
                         name, c, list, i + 1)

\* _triggerEvent: let isMaster = !('_queue' in Dynx); Dynx._queue = []
OpenQueue(w, isMaster) ==
    IF isMaster
    THEN [w EXCEPT !.updatesQueue = <<>>, !.updatesInProgress = TRUE]
    ELSE w

\* _triggerEvent: a handle is queued, any other listener is called at once
DispatchOne(w, c, lis) ==
    IF lis.k = "handle"
    THEN [w EXCEPT !.updatesQueue = Append(@, [cell |-> c, listener |-> lis]),
                   !.sched = @ \o Queued("updates", c, <<lis>>, Len(w.locals))]
    ELSE Legacy_CallListener(Invoke(w, "updates", c, lis), "updates", c, lis)

DispatchEach(w, c, list, i) ==
    IF Halted(w) \/ i > Len(list) THEN w
    ELSE DispatchEach(DispatchOne(w, c, list[i]), c, list, i + 1)

\* _triggerEvent: this[arrName] = arr, the listeners that are not obsolete
KeepLive(w, c, list) ==
    IF Halted(w) THEN w ELSE [w EXCEPT !.updates[c] = list]

\* while(listener = Dynx._queue.shift()) listener()
Legacy_RunQueue(w) ==
    IF Halted(w) \/ w.updatesQueue = <<>> THEN w
    ELSE Legacy_RunQueue(
            Legacy_CallListener(Invoke(Shift(w, "updates"), "updates",
                                       Head(w.updatesQueue).cell,
                                       Head(w.updatesQueue).listener),
                                "updates",
                                Head(w.updatesQueue).cell,
                                Head(w.updatesQueue).listener))

\* _triggerEvent: the master loop and delete Dynx._queue, lines 257-262
RunIfMaster(w, isMaster) ==
    IF isMaster THEN EndDrive(Legacy_RunQueue(w), "updates") ELSE w

\* _triggerEvent(event, ...args)
_triggerEvent(w, c, event) ==
    IF Halted(w) THEN w
    ELSE IF event = "update"
    THEN RunIfMaster(
            KeepLive(
                DispatchEach(OpenQueue(w, ~w.updatesInProgress), c,
                             Live(w.updates[c]), 1),
                c, Live(w.updates[c])),
            ~w.updatesInProgress)
    ELSE Legacy_CallEach(w, _getEventArrName(event), c,
                         w[_getEventArrName(event)][c], 1)

\* update(): let newValue = this._init_value
Legacy_InitNewValue(w, c) ==
    IF Halted(w) THEN w
    ELSE [w EXCEPT !.locals[Len(w.locals)] = w.initValue[c]]

\* update(): if(this._isFinal && this.exp) this._pendingConstant = true
MarkPendingConstant(w, c) ==
    IF Halted(w) THEN w
    ELSE IF w.isFinal[c] /\ w.exp[c] # NoExp
    THEN [w EXCEPT !.pendingConstant[c] = 1]
    ELSE w

\* update(): the evaluation block, lines 188-203
Legacy_EvaluateBlock(w, c) ==
    IF Halted(w) THEN w
    ELSE IF w.exp[c] # NoExp \/ w.filters[c] # <<>>
    THEN Pop(ApplyFilters(EvaluateExp(Push(_refreshHandle(w, c), c), c), c, 1))
    ELSE w

\* update(): storing the value and calling the listeners, lines 206-211
Legacy_StoreAndNotify(w, c, force) ==
    IF Halted(w) THEN w
    ELSE IF NewValue(w) # w.value[c] \/ force
    THEN _triggerEvent(Store(w, c), c, "update")
    ELSE w

\* update(): this._init_value = this._value; this.constant()
BecomeConstant(w, c) ==
    IF w.pendingConstant[c] = 1
    THEN constant([w EXCEPT !.initValue[c] = w.value[c]], c)
    ELSE w

DeletePendingConstant(w, c) ==
    IF Halted(w) THEN w ELSE [w EXCEPT !.pendingConstant[c] = Absent]

\* update(): a final cell whose expression read no cell, lines 213-219
SettleFinal(w, c) ==
    IF Halted(w) THEN w
    ELSE IF w.isFinal[c] /\ w.exp[c] # NoExp
    THEN DeletePendingConstant(BecomeConstant(w, c), c)
    ELSE w

\* update(force=false)
Legacy_update(w, c, force) ==
    IF Halted(w) THEN w
    ELSE IF w.steps >= MaxSteps THEN [w EXCEPT !.div = TRUE]
    ELSE Leave(_triggerEvent(SettleFinal(Legacy_StoreAndNotify(
            Legacy_EvaluateBlock(MarkPendingConstant(Legacy_InitNewValue(
                _triggerEvent(Enter(w, c), c, "pre-update"), c), c), c),
            c, force), c), c, "post-update"))

\* constant(), without an argument
constant(w, c) ==
    IF Halted(w) \/ isConstant(w, c) THEN w
    ELSE Legacy_update([w EXCEPT !.exp[c] = NoExp, !.isFinal[c] = TRUE],
                       c, TRUE)

\* constant(value)
constantWith(w, c, v) ==
    IF Halted(w) \/ isConstant(w, c) THEN w
    ELSE IF w.isFinal[c] THEN Throw(w)
    ELSE constant([w EXCEPT !.initValue[c] = v], c)

\* set value: if(this._init_value !== value){...}
Legacy_AssignValue(w, c, v) ==
    IF w.initValue[c] # v
    THEN Legacy_update([w EXCEPT !.initValue[c] = v], c, TRUE)
    ELSE w

\* set value(value)
Legacy_setValue(w, c, v) ==
    IF Halted(w) THEN w
    ELSE IF w.isFinal[c] THEN Throw(w)
    ELSE Legacy_AssignValue([w EXCEPT !.exp[c] = NoExp], c, v)

\* set exp: if(this._exp !== value){...}
Legacy_AssignExp(w, c, e) ==
    IF w.exp[c] # e
    THEN Legacy_update([w EXCEPT !.exp[c] = e], c, FALSE)
    ELSE w

\* set exp(value)
Legacy_setExp(w, c, e) ==
    IF Halted(w) THEN w
    ELSE IF w.isFinal[c] THEN Throw(w)
    ELSE IF e = NotCallable THEN Throw(w)
    ELSE Legacy_AssignExp([w EXCEPT !.initValue[c] = Absent], c, e)

\* Dynx.immune(func, ...args)
immune(w, e) ==
    IF Halted(w) THEN w
    ELSE PopMarker(CallBody(Invoked(PushMarker(w), e), e))

\* invalidate()
invalidate(w, c) == Legacy_setValue(w, c, InvalidValue)

\* cell.value = v as user code writes it, in the implementation under test
Assign(w, c, v) ==
    IF w.impl = "legacy" THEN Legacy_setValue(w, c, v) ELSE setValue(w, c, v)

\* cell.value as user code reads it, in the implementation under test
Read(w, c) ==
    IF w.impl = "legacy" THEN Legacy_getValue(w, c) ELSE getValue(w, c)

\* ------------------------------------------------------- public calls
\* the state as the record the operators thread, at the start of a call
World ==
    [impl |-> impl, initValue |-> initValue, isFinal |-> isFinal,
     pendingConstant |-> pendingConstant,
     made |-> made, parent |-> parent, listOf |-> listOf, conds |-> conds,
     elseThen |-> elseThen, elseParam |-> elseParam, methods |-> methods,
     chain |-> chain, cell |-> NoCell,
     type |-> type, value |-> value, exp |-> exp, filters |-> filters,
     preupdates |-> preupdates, updates |-> updates,
     postupdates |-> postupdates, typeChanges |-> typeChanges,
     updateHandle |-> updateHandle, pendingType |-> pendingType,
     childStack |-> childStack, updatesQueue |-> updatesQueue,
     typeChangesQueue |-> typeChangesQueue,
     updatesInProgress |-> updatesInProgress,
     typeChangesInProgress |-> typeChangesInProgress,
     reads |-> reads, log |-> <<>>, sched |-> <<>>, ret |-> 0,
     locals |-> <<>>, steps |-> 0,
     exc |-> FALSE, div |-> FALSE]

\* the state when the call returns, throws or hangs
Commit(w) ==
    /\ \A c \in Cells : Len(w.updates[c]) <= MaxListeners
    /\ Len(w.childStack) <= MaxStack
    /\ type' = w.type
    /\ value' = w.value
    /\ exp' = w.exp
    /\ filters' = w.filters
    /\ preupdates' = w.preupdates
    /\ updates' = w.updates
    /\ postupdates' = w.postupdates
    /\ typeChanges' = w.typeChanges
    /\ updateHandle' = w.updateHandle
    /\ pendingType' = w.pendingType
    /\ childStack' = w.childStack
    /\ updatesQueue' = w.updatesQueue
    /\ typeChangesQueue' = w.typeChangesQueue
    /\ updatesInProgress' = w.updatesInProgress
    /\ typeChangesInProgress' = w.typeChangesInProgress
    /\ initValue' = w.initValue
    /\ isFinal' = w.isFinal
    /\ pendingConstant' = w.pendingConstant
    /\ made' = w.made
    /\ parent' = w.parent
    /\ listOf' = w.listOf
    /\ conds' = w.conds
    /\ elseThen' = w.elseThen
    /\ elseParam' = w.elseParam
    /\ methods' = w.methods
    /\ chain' = w.chain
    /\ returned' = w.cell
    /\ reads' = w.reads
    /\ log' = w.log
    /\ sched' = w.sched
    /\ thrown' = w.exc
    /\ diverged' = w.div
    /\ impl' = impl

Op(name, c, v, e, f, b) ==
    [name |-> name, cell |-> c, val |-> v, e |-> e, f |-> f, flag |-> b]

NoOp == Op("new", 0, 0, NoExp, "", FALSE)

\* cell.value = v
SetValue(c, v) ==
    /\ ~diverged
    /\ Commit(IF impl = "legacy" THEN Legacy_setValue(World, c, v)
              ELSE setValue(World, c, v))
    /\ lastOp' = Op("setValue", c, v, NoExp, "", FALSE)

\* cell.exp = e
SetExp(c, e) ==
    /\ ~diverged
    /\ Commit(IF impl = "legacy" THEN Legacy_setExp(World, c, e)
              ELSE setExp(World, c, e))
    /\ lastOp' = Op("setExp", c, 0, e, "", FALSE)

\* cell.type = t
SetType(c, t) ==
    /\ ~diverged
    /\ impl = "typed"
    /\ Commit(setType(World, c, t))
    /\ lastOp' = Op("setType", c, t, NoExp, "", FALSE)

\* cell.update(force)
Update(c, force) ==
    /\ ~diverged
    /\ Commit(IF impl = "legacy" THEN Legacy_update(World, c, force)
              ELSE update(World, c, force))
    /\ lastOp' = Op("update", c, 0, NoExp, "", force)

\* cell.finalize(v)
Finalize(c, v) ==
    /\ ~diverged
    /\ impl = "typed"
    /\ Commit(finalize(World, c, v))
    /\ lastOp' = Op("finalize", c, v, NoExp, "", FALSE)

\* cell.onFilterSub(f, first); cell.on('filter', f)
FilterSub(c, f, first) ==
    /\ ~diverged
    /\ Len(filters[c]) < MaxFilters
    /\ Commit(IF impl = "legacy" THEN on(World, c, "filter", f, FALSE, 0)
              ELSE onFilterSub(World, c, f, first))
    /\ lastOp' = Op("onFilterSub", c, 0, NoExp, f, first)

\* cell.onFilterUnsub(f); cell.off('filter', f)
FilterUnsub(c, f) ==
    /\ ~diverged
    /\ Commit(IF impl = "legacy" THEN off(World, c, "filter", f)
              ELSE onFilterUnsub(World, c, f))
    /\ lastOp' = Op("onFilterUnsub", c, 0, NoExp, f, FALSE)

Groups == {"preupdates", "updates", "postupdates"}

SubName(group) ==
    IF group = "preupdates" THEN "onPreUpdateSub"
    ELSE IF group = "updates" THEN "onUpdateSub"
    ELSE "onPostUpdateSub"

Sub(w, c, group, handler) ==
    IF group = "preupdates" THEN onPreUpdateSub(w, c, handler, FALSE)
    ELSE IF group = "updates" THEN onUpdateSub(w, c, handler, FALSE)
    ELSE onPostUpdateSub(w, c, handler, FALSE)

\* cell.onPreUpdateSub(h), cell.onUpdateSub(h), cell.onPostUpdateSub(h),
\* for a handler the group does not hold yet
ListenerSub(c, group, handler) ==
    /\ ~diverged
    /\ IndexOf(World[group][c], handler) = 0
    /\ Commit(Sub(World, c, group, handler))
    /\ lastOp' = Op(SubName(group), c, handler.id, NoExp, "", FALSE)

\* onPreUpdateUnsub(handler), onUpdateUnsub(handler), onPostUpdateUnsub(handler)
onPreUpdateUnsub(w, c, handler) == REMOVE_LISTENER(w, c, "preupdates", handler)
onUpdateUnsub(w, c, handler) == REMOVE_LISTENER(w, c, "updates", handler)
onPostUpdateUnsub(w, c, handler) == REMOVE_LISTENER(w, c, "postupdates", handler)

UnsubName(group) ==
    IF group = "preupdates" THEN "onPreUpdateUnsub"
    ELSE IF group = "updates" THEN "onUpdateUnsub"
    ELSE "onPostUpdateUnsub"

Unsub(w, c, group, handler) ==
    IF group = "preupdates" THEN onPreUpdateUnsub(w, c, handler)
    ELSE IF group = "updates" THEN onUpdateUnsub(w, c, handler)
    ELSE onPostUpdateUnsub(w, c, handler)

\* the event name the legacy on / off take for a group
EventOf(group) ==
    IF group = "preupdates" THEN "pre-update"
    ELSE IF group = "updates" THEN "update"
    ELSE "post-update"

\* the n-th function of the user's program, as either implementation holds it
Listener(n) == IF impl = "legacy" THEN LegacyListener(n, 0) ELSE UserListener(n)

\* how many listeners a cell holds over its three groups
Held(c) == Len(preupdates[c]) + Len(updates[c]) + Len(postupdates[c])

\* cell.onUpdateSub(h) and its siblings, cell.on(event, h): the handler may be
\* one the group holds already
ListenerAdd(c, group, n) ==
    /\ ~diverged
    /\ Held(c) < MaxHandlers
    /\ Commit(IF impl = "legacy"
              THEN on(World, c, EventOf(group), Listener(n), FALSE, 0)
              ELSE Sub(World, c, group, Listener(n)))
    /\ lastOp' = Op(SubName(group), c, n, NoExp, "", FALSE)

\* cell.onUpdateUnsub(h) and its siblings, cell.off(event, h)
ListenerUnsub(c, group, n) ==
    /\ ~diverged
    /\ Commit(IF impl = "legacy"
              THEN off(World, c, EventOf(group), Listener(n))
              ELSE Unsub(World, c, group, Listener(n)))
    /\ lastOp' = Op(UnsubName(group), c, n, NoExp, "", FALSE)

\* owner.executeImmune(body), Dynx.immune(body), called by the user's program
\* outside of any expression
ExecuteImmune(c, t, body) ==
    /\ ~diverged
    /\ Commit(RunImmune(World, ImmuneExp(c, t, body)))
    /\ lastOp' = Op("executeImmune", c, body, NoExp, "", FALSE)

\* the priorities the program gives its listeners; 0 is the default
Priorities == {-1, 0, 1}

\* whether the function n is in the list, and where
HoldsFunc(list, n) ==
    \E i \in DOMAIN list : list[i].k = "user" /\ list[i].id = n

FuncIn(list, n) ==
    list[CHOOSE i \in DOMAIN list : list[i].k = "user" /\ list[i].id = n]

\* how many user functions the list holds
UserCount(list) ==
    Cardinality({i \in DOMAIN list : list[i].k = "user"})

\* cell.on('update', h, false, priority), legacy, with a function h the cell
\* does not hold yet: priority is a property the call sets on the function
PriorityOn(c, n, priority) ==
    /\ ~diverged
    /\ impl = "legacy"
    /\ ~HoldsFunc(updates[c], n)
    /\ UserCount(updates[c]) < MaxHandlers
    /\ Commit(on(World, c, "update", LegacyListener(n, priority), FALSE,
                 priority))
    /\ lastOp' = Op("on", c, n, NoExp, "update", FALSE)

\* cell.off('update', h), legacy, with a function the cell holds
PriorityOff(c, n) ==
    /\ ~diverged
    /\ impl = "legacy"
    /\ HoldsFunc(updates[c], n)
    /\ Commit(off(World, c, "update", FuncIn(updates[c], n)))
    /\ lastOp' = Op("off", c, n, NoExp, "update", FALSE)

\* ------------------------------------------------------- construction
\* no cell constructed yet: every field as a fresh object has it
Blank ==
    [impl |-> "typed", initValue |-> [c \in Cells |-> Absent],
     isFinal |-> [c \in Cells |-> FALSE],
     pendingConstant |-> [c \in Cells |-> Absent],
     made |-> 0, parent |-> [c \in Cells |-> NoCell],
     listOf |-> [c \in Cells |-> NoCell], conds |-> [c \in Cells |-> <<>>],
     elseThen |-> [c \in Cells |-> Absent],
     elseParam |-> [c \in Cells |-> Absent],
     methods |-> [c \in Cells |-> ""], chain |-> NoChain, cell |-> NoCell,
     type |-> [c \in Cells |-> DYNAMIC], value |-> [c \in Cells |-> 0],
     exp |-> [c \in Cells |-> NoExp], filters |-> [c \in Cells |-> <<>>],
     preupdates |-> [c \in Cells |-> <<>>], updates |-> [c \in Cells |-> <<>>],
     postupdates |-> [c \in Cells |-> <<>>],
     typeChanges |-> [c \in Cells |-> <<>>],
     updateHandle |-> [c \in Cells |-> FALSE],
     pendingType |-> [c \in Cells |-> Absent],
     childStack |-> <<>>, updatesQueue |-> <<>>, typeChangesQueue |-> <<>>,
     updatesInProgress |-> FALSE, typeChangesInProgress |-> FALSE,
     reads |-> [c \in Cells |-> {}], log |-> <<>>, sched |-> <<>>,
     ret |-> 0, locals |-> <<>>,
     steps |-> 0,
     exc |-> FALSE, div |-> FALSE]

\* new Dynx(initial, type)
constructor(w, c, initial, t) ==
    [w EXCEPT !.value[c] = initial, !.type[c] = t]

\* Dynx(e, type) without new: new Dynx(undefined, type), then dynx.exp = e;
\* the cells of this model are built with a number in place of undefined
Wrapper(w, c, initial, e, t) == setExp(constructor(w, c, initial, t), c, e)

\* the variables after the program's construction code has run
InitFrom(w) ==
    /\ impl = w.impl
    /\ initValue = w.initValue
    /\ isFinal = w.isFinal
    /\ pendingConstant = w.pendingConstant
    /\ made = w.made
    /\ parent = w.parent
    /\ listOf = w.listOf
    /\ conds = w.conds
    /\ elseThen = w.elseThen
    /\ elseParam = w.elseParam
    /\ methods = w.methods
    /\ chain = w.chain
    /\ returned = NoCell
    /\ type = w.type
    /\ value = w.value
    /\ exp = w.exp
    /\ filters = w.filters
    /\ preupdates = w.preupdates
    /\ updates = w.updates
    /\ postupdates = w.postupdates
    /\ typeChanges = w.typeChanges
    /\ updateHandle = w.updateHandle
    /\ pendingType = w.pendingType
    /\ childStack = w.childStack
    /\ updatesQueue = w.updatesQueue
    /\ typeChangesQueue = w.typeChangesQueue
    /\ updatesInProgress = w.updatesInProgress
    /\ typeChangesInProgress = w.typeChangesInProgress
    /\ reads = w.reads
    /\ log = <<>>
    /\ sched = <<>>
    /\ lastOp = NoOp
    /\ thrown = FALSE
    /\ diverged = FALSE

\* new Dynx(initial), legacy; Absent stands for undefined
Legacy_constructor(w, c, initial) ==
    Legacy_setValue([w EXCEPT !.value[c] = Absent, !.initValue[c] = Absent],
                    c, initial)

\* Dynx(e) without new, legacy: new Dynx(undefined), then dynx.exp = e
Legacy_Wrapper(w, c, e) == Legacy_setExp(Legacy_constructor(w, c, Absent), c, e)

\* Dynx.prototype.transform = function(func), called on src with the
\* identity as func; c is the cell it creates
transform(w, src, c) ==
    setExp(setType(constructor(w, c, Absent, DYNAMIC), c, INHERIT),
           c, ReadExp(src))

\* c = src.transform(x => x), for a cell c that does not exist yet
Transform(src, c) ==
    /\ ~diverged
    /\ impl = "typed"
    /\ exp[c] = NoExp /\ type[c] = DYNAMIC /\ ~updateHandle[c]
    /\ Commit(transform(World, src, c))
    /\ lastOp' = Op("transform", c, src, NoExp, "", FALSE)

\* cell.value, read by the user's program outside of any expression
ReadValue(c) ==
    /\ ~diverged
    /\ Commit(Read(World, c))
    /\ lastOp' = Op("getValue", c, Read(World, c).ret, NoExp, "", FALSE)

\* cell.invalidate()
Invalidate(c) ==
    /\ ~diverged
    /\ impl = "legacy"
    /\ Commit(invalidate(World, c))
    /\ lastOp' = Op("invalidate", c, 0, NoExp, "", FALSE)

\* ------------------------- src/DynxTransform.js, src/src/dynx-transform.js
\* new Dynx(): the next cell
Fresh(w) == w.made + 1

Alloc(w) == [w EXCEPT !.made = @ + 1]

\* return <cell>
ReturnCell(w, c) == IF Halted(w) THEN w ELSE [w EXCEPT !.cell = c]

\* cond._ifThens = _ifThens; cond._elseThen = _elseThen, and what the
\* methods of cond close over; list NoCell is the default parameter []
InitCond(w, c, p, list, else) ==
    IF Halted(w) THEN w
    ELSE [w EXCEPT !.parent[c] = p,
                   !.listOf[c] = IF list = NoCell THEN c ELSE list,
                   !.elseThen[c] = else, !.elseParam[c] = else,
                   !.methods[c] = "if"]

\* createBasicCond(parentDynx, _ifThens, _elseThen)
createBasicCond(w, p, list, else) ==
    ReturnCell(
        setExp(InitCond(setType(constructor(Alloc(w), Fresh(w), Absent, DYNAMIC),
                                Fresh(w), INHERIT),
                        Fresh(w), p, list, else),
               Fresh(w), CondExp(p)),
        Fresh(w))

\* this._ifThens.push({condition, then})
PushIfThen(w, c, entry) ==
    IF Halted(w) THEN w
    ELSE [w EXCEPT !.conds[w.listOf[c]] = Append(@, entry)]

\* if(this.type == DynxType.STATIC) return createBasicCond(parentDynx,
\* _ifThens, _elseThen); else this.update(); return this
RecreateIfStatic(w, c) ==
    IF Halted(w) THEN w
    ELSE IF w.type[c] = STATIC
    THEN createBasicCond(w, w.parent[c], w.listOf[c], w.elseParam[c])
    ELSE ReturnCell(update(w, c, FALSE), c)

\* cond.if(condition, then)
cond_if(w, c, entry) == RecreateIfStatic(PushIfThen(w, c, entry), c)

SetElseThen(w, c, then) ==
    IF Halted(w) THEN w ELSE [w EXCEPT !.elseThen[c] = then]

\* cond.else(then)
cond_else(w, c, then) == RecreateIfStatic(SetElseThen(w, c, then), c)

\* Dynx.prototype.if = function(condition, then)
prototype_if(w, p, entry) ==
    cond_if(createBasicCond(w, p, NoCell, Absent), Fresh(w), entry)

\* finalize(exp), legacy; the programs of this model subscribe no finalize
\* listener
Legacy_finalize(w, c, e) ==
    IF Halted(w) \/ w.isFinal[c] THEN w
    ELSE Legacy_update([w EXCEPT !.exp[c] = e, !.isFinal[c] = TRUE], c, TRUE)

\* createCond(parentDynx, _ifThens, _elseThen)
createCond(w, p, list, else) ==
    ReturnCell(
        Legacy_finalize(
            InitCond(Legacy_constructor(Alloc(w), Fresh(w), Absent),
                     Fresh(w), p, list, else),
            Fresh(w), CondExp(p)),
        Fresh(w))

\* let thens = [...this._ifThens]: the copy is the array of the next cell
CopyIfThens(w, c) == [w EXCEPT !.conds[Fresh(w)] = IfThens(w, c)]

\* ifFunc(condition, then)
ifFunc(w, c, entry) ==
    IF Halted(w) THEN w
    ELSE IF w.isFinal[c]
    THEN createCond(PushIfThen(CopyIfThens(w, c), c, entry),
                    w.parent[c], Fresh(w), w.elseThen[c])
    ELSE ReturnCell(Legacy_update(PushIfThen(w, c, entry), c, FALSE), c)

\* elseFunc(then)
elseFunc(w, c, then) ==
    IF Halted(w) THEN w
    ELSE IF w.isFinal[c] THEN createCond(w, w.parent[c], w.listOf[c], then)
    ELSE ReturnCell(Legacy_update(SetElseThen(w, c, then), c, FALSE), c)

\* Dynx.prototype.if = function(condition, then), legacy
Legacy_prototype_if(w, p, entry) ==
    ifFunc(createCond(w, p, NoCell, Absent), Fresh(w), entry)

\* cond.case = ..., cond.default = ... (and, legacy, delete cond.if, ...)
WithCase(w, c) == IF Halted(w) THEN w ELSE [w EXCEPT !.methods[c] = "case"]

\* createSwitchCond(parentDynx, _cases, _defaultCase)
createSwitchCond(w, p, list, default) ==
    ReturnCell(
        setExp(WithCase(InitCond(setType(constructor(Alloc(w), Fresh(w),
                                                     Absent, DYNAMIC),
                                         Fresh(w), INHERIT),
                                 Fresh(w), p, list, default),
                        Fresh(w)),
               Fresh(w), SwitchExp(p)),
        Fresh(w))

\* this._cases[value] = then on an object: the key's entry is replaced
PutCase(list, entry) ==
    IF \E i \in DOMAIN list : list[i].key = entry.key
    THEN [i \in DOMAIN list |->
             IF list[i].key = entry.key THEN entry ELSE list[i]]
    ELSE Append(list, entry)

SetCase(w, c, entry) ==
    IF Halted(w) THEN w
    ELSE [w EXCEPT !.conds[w.listOf[c]] = PutCase(@, entry)]

\* if(this.type == DynxType.STATIC) return createSwitchCond(_cases,
\* _defaultCase); else this.update(); return this.  The two arguments land
\* in the parameters parentDynx and _cases: the parent is the cases object,
\* which is no cell, and _cases is the _defaultCase the method closes over,
\* undefined (so the default {}) in every conditional the code creates
RecreateSwitchIfStatic(w, c) ==
    IF Halted(w) THEN w
    ELSE IF w.type[c] # STATIC THEN ReturnCell(update(w, c, FALSE), c)
    ELSE IF w.elseParam[c] # Absent THEN Throw(w)
    ELSE createSwitchCond(w, NoCell, NoCell, Absent)

\* cond.case(value, then)
cond_case(w, c, entry) == RecreateSwitchIfStatic(SetCase(w, c, entry), c)

\* cond.default(then)
cond_default(w, c, then) == RecreateSwitchIfStatic(SetElseThen(w, c, then), c)

\* Dynx.prototype.switch = function()
prototype_switch(w, p) == createSwitchCond(w, p, NoCell, Absent)

\* Dynx.prototype.switch = function(), legacy
Legacy_prototype_switch(w, p) ==
    WithCase(createCond(w, p, NoCell, Absent), Fresh(w))

\* cond.case(value, then), legacy
Legacy_case(w, c, entry) == ifFunc(w, c, entry)

\* cond.default(then), legacy
Legacy_default(w, c, then) == elseFunc(w, c, then)

\* the chain the program writes: p.if(..) or p.switch() begins one
StartChain(w, p, list) ==
    [w EXCEPT !.chain = [cell |-> w.cell, parent |-> p, list |-> list,
                         else |-> Absent, ok |-> ~Halted(w)]]

\* .if(..), .case(..) on the cell the chain's latest call returned
ExtendChain(w, c, entry) ==
    IF w.chain.cell # c THEN w
    ELSE IF Halted(w) THEN [w EXCEPT !.chain.ok = FALSE]
    ELSE [w EXCEPT !.chain.cell = w.cell, !.chain.list = Append(@, entry)]

\* .else(..), .default(..) on the cell the chain's latest call returned
EndChain(w, c, then) ==
    IF w.chain.cell # c THEN w
    ELSE IF Halted(w) THEN [w EXCEPT !.chain.ok = FALSE]
    ELSE [w EXCEPT !.chain.cell = w.cell, !.chain.else = then]

\* p.if(condition, then): creates two cells when the first one is STATIC
\* or final
PrototypeIf(p, entry) ==
    /\ ~diverged
    /\ made + 2 <= MaxCells
    /\ Commit(StartChain(IF impl = "legacy"
                         THEN Legacy_prototype_if(World, p, entry)
                         ELSE prototype_if(World, p, entry),
                         p, <<entry>>))
    /\ lastOp' = Op("prototype.if", p, entry.then, NoExp, "", entry.neg)

\* c.if(condition, then) on a conditional c
CondIf(c, entry) ==
    /\ ~diverged
    /\ listOf[c] # NoCell
    /\ made + 1 <= MaxCells
    /\ Len(IfThens(World, c)) < MaxConds
    /\ Commit(ExtendChain(IF impl = "legacy" THEN ifFunc(World, c, entry)
                          ELSE cond_if(World, c, entry),
                          c, entry))
    /\ lastOp' = Op("if", c, entry.then, NoExp, "", entry.neg)

\* c.else(then) on a conditional c
CondElse(c, then) ==
    /\ ~diverged
    /\ listOf[c] # NoCell
    /\ made + 1 <= MaxCells
    /\ Commit(EndChain(IF impl = "legacy" THEN elseFunc(World, c, then)
                       ELSE cond_else(World, c, then),
                       c, then))
    /\ lastOp' = Op("else", c, then, NoExp, "", FALSE)

\* cell.finalize(), legacy: the expression stays the one the cell has
LegacyFinalize(c) ==
    /\ ~diverged
    /\ impl = "legacy"
    /\ Commit(Legacy_finalize(World, c, exp[c]))
    /\ lastOp' = Op("finalize", c, 0, NoExp, "", FALSE)

\* cell.constant(v), legacy
MakeConstant(c, v) ==
    /\ ~diverged
    /\ impl = "legacy"
    /\ Commit(constantWith(World, c, v))
    /\ lastOp' = Op("constant", c, v, NoExp, "", TRUE)

\* cell.constant(), legacy
MakeConstantAsIs(c) ==
    /\ ~diverged
    /\ impl = "legacy"
    /\ Commit(constant(World, c))
    /\ lastOp' = Op("constant", c, 0, NoExp, "", FALSE)

\* p.switch()
PrototypeSwitch(p) ==
    /\ ~diverged
    /\ made + 1 <= MaxCells
    /\ Commit(StartChain(IF impl = "legacy"
                         THEN Legacy_prototype_switch(World, p)
                         ELSE prototype_switch(World, p),
                         p, <<>>))
    /\ lastOp' = Op("prototype.switch", p, 0, NoExp, "", FALSE)

\* c.case(value, then) on a cell the program holds: a TypeError when c has
\* no such method
CondCase(c, entry) ==
    /\ ~diverged
    /\ listOf[c] # NoCell
    /\ made + 1 <= MaxCells
    /\ Len(IfThens(World, c)) < MaxConds
    /\ Commit(ExtendChain(IF methods[c] # "case" THEN Throw(World)
                          ELSE IF impl = "legacy"
                          THEN Legacy_case(World, c, entry)
                          ELSE cond_case(World, c, entry),
                          c, entry))
    /\ lastOp' = Op("case", c, entry.then, NoExp, "", FALSE)

\* c.default(then) on a cell the program holds
CondDefault(c, then) ==
    /\ ~diverged
    /\ listOf[c] # NoCell
    /\ made + 1 <= MaxCells
    /\ Commit(EndChain(IF methods[c] # "case" THEN Throw(World)
                       ELSE IF impl = "legacy"
                       THEN Legacy_default(World, c, then)
                       ELSE cond_default(World, c, then),
                       c, then))
    /\ lastOp' = Op("default", c, then, NoExp, "", FALSE)

\* --------------------------------------- the fork program (test, spec 8)
\* fork = 1, in1 = 2, in2 = 3, out = 4 = fork ? in1 : in2, and a cell
\* tail = 5 = out + in1 that reaches in1 along two paths and has a filter;
\* both derived cells with a pre-update listener
ForkProgram(t, tOut, tTail) ==
    onFilterSub(
      ADD_LISTENER(
        Wrapper(
          ADD_LISTENER(
            Wrapper(
              constructor(constructor(constructor(Blank, 1, 1, t[1]),
                                      2, 0, t[2]), 3, 1, t[3]),
              4, 0, ForkExp(1, 2, 3), tOut),
            4, "preupdates", UserListener(1), FALSE),
          5, 0, SumExp(4, 2), tTail),
        5, "preupdates", UserListener(1), FALSE),
      5, "inc", FALSE)

\* the inputs are constructed DYNAMIC (the default) or INVALID, the derived
\* cells DYNAMIC or INHERIT (as a combinator is)
InitFork ==
    \E t \in [{1, 2, 3} -> {DYNAMIC, INVALID}],
       tOut \in {DYNAMIC, INHERIT}, tTail \in {DYNAMIC, INHERIT} :
        InitFrom(ForkProgram(t, tOut, tTail))

\* the inputs are assigned, as in the test
NextFork == \E c \in {1, 2, 3}, v \in Vals : SetValue(c, v)

SpecFork == InitFork /\ [][NextFork]_vars

\* ------------------------------------- two cells, every operation
\* cell 1 is a DYNAMIC constant holder that is assigned values; cell 2 is
\* constructed with any type and taken through every public operation, its
\* expression a constant or a read of cell 1
TwoCells(t2, v2) == constructor(constructor(Blank, 1, 0, DYNAMIC), 2, v2, t2)

Init == \E t2 \in Types, v2 \in Vals : InitFrom(TwoCells(t2, v2))

Next ==
    \/ \E c \in {1, 2}, v \in Vals : SetValue(c, v)
    \/ \E e \in {ConstExp(1), ReadExp(1), NotCallable} : SetExp(2, e)
    \/ \E t \in Types : SetType(2, t)
    \/ \E force \in BOOLEAN : Update(2, force)
    \/ \E v \in Vals : Finalize(2, v)
    \/ FilterSub(2, "inc", FALSE)
    \/ FilterUnsub(2, "inc")
    \/ \E g \in Groups : ListenerSub(2, g, UserListener(1))

Spec == Init /\ [][Next]_vars

\* ------------------------- one cell and its listeners (tests 'event')
\* cell 1 = new Dynx(0) with one listener in each group, as the tests
\* 'sends updates' and 'obeys force' build it, and a cell 2 that reads it
TypedEvents ==
    Wrapper(
      onPostUpdateSub(
        onPreUpdateSub(
          onUpdateSub(constructor(Blank, 1, 0, DYNAMIC),
                      1, UserListener(1), FALSE),
          1, UserListener(1), FALSE),
        1, UserListener(1), FALSE),
      2, 0, ReadExp(1), DYNAMIC)

LegacyEvents ==
    Legacy_Wrapper(
      on(on(on(Legacy_constructor([Blank EXCEPT !.impl = "legacy"], 1, 0),
               1, "update", LegacyListener(1, 0), FALSE, 0),
            1, "pre-update", LegacyListener(1, 0), FALSE, 0),
         1, "post-update", LegacyListener(1, 0), FALSE, 0),
      2, ReadExp(1))

InitEvents == InitFrom(TypedEvents) \/ InitFrom(LegacyEvents)

NextEvents ==
    \/ \E v \in Vals : SetValue(1, v)
    \/ \E force \in BOOLEAN : Update(1, force)
    \/ \E k \in Vals : SetExp(1, ConstExp(k))
    \/ \E f \in {"inc", "dbl"} : FilterSub(1, f, FALSE)
    \/ \E f \in {"inc", "dbl"} : FilterUnsub(1, f)

SpecEvents == InitEvents /\ [][NextEvents]_vars

\* -------------------------- one cell and its subscriptions (tests 'event')
\* cell 1 = new Dynx(0); the program subscribes and unsubscribes three
\* functions, possibly the same one several times, assigns and updates
TypedSubs == constructor(Blank, 1, 0, DYNAMIC)

LegacySubs == Legacy_constructor([Blank EXCEPT !.impl = "legacy"], 1, 0)

InitSubs == InitFrom(TypedSubs) \/ InitFrom(LegacySubs)

Handlers == {1, 2, 3}

NextSubs ==
    \/ \E g \in Groups, n \in Handlers : ListenerAdd(1, g, n)
    \/ \E g \in Groups, n \in Handlers : ListenerUnsub(1, g, n)
    \/ \E v \in Vals : SetValue(1, v)
    \/ \E force \in BOOLEAN : Update(1, force)

SpecSubs == InitSubs /\ [][NextSubs]_vars

\* -------------------------- constants and their filters (tests 'filter')
\* cell 1 = new Dynx(0) and cell 2 = new Dynx(1); the program attaches and
\* detaches filters and calls update(), and assigns no value
Base(c) == c - 1

Constants == {1, 2}

TypedFilters ==
    constructor(constructor(Blank, 1, Base(1), DYNAMIC), 2, Base(2), DYNAMIC)

LegacyFilters ==
    Legacy_constructor(
        Legacy_constructor([Blank EXCEPT !.impl = "legacy"], 1, Base(1)),
        2, Base(2))

InitFilters == InitFrom(TypedFilters) \/ InitFrom(LegacyFilters)

NextFilters ==
    \/ \E c \in Constants, f \in {"inc", "dbl"}, first \in BOOLEAN :
          FilterSub(c, f, first)
    \/ \E c \in Constants, f \in {"inc", "dbl"} : FilterUnsub(c, f)
    \/ \E c \in Constants, force \in BOOLEAN : Update(c, force)

SpecFilters == InitFilters /\ [][NextFilters]_vars

\* ------------------------ immune blocks (test 'can execute immune blocks')
\* cell 1 = new Dynx(0) is the cell the blocks read and write; cell 2 is the
\* cell whose expression holds the block
TypedImmune ==
    constructor(constructor(Blank, 1, 0, DYNAMIC), 2, 0, DYNAMIC)

LegacyImmune ==
    Legacy_constructor(
        Legacy_constructor([Blank EXCEPT !.impl = "legacy"], 1, 0), 2, 0)

InitImmune == InitFrom(TypedImmune) \/ InitFrom(LegacyImmune)

\* the expressions the program assigns to cell 2: an immune block called on
\* cell 2 itself or on cell 1, the read-then-write without a block, a read
ImmuneExps ==
    {ImmuneExp(2, 1, b) : b \in Bodies} \cup {ImmuneExp(1, 1, BodyRead)}
        \cup {MakeExp(1), ReadExp(1)}

NextImmune ==
    \/ \E v \in Vals : SetValue(1, v)
    \/ \E e \in ImmuneExps : SetExp(2, e)
    \/ \E c \in {1, 2}, b \in {BodyRead, BodyReadWrite} : ExecuteImmune(c, 1, b)
    \/ \E force \in BOOLEAN : Update(2, force)

SpecImmune == InitImmune /\ [][NextImmune]_vars

\* ------------------------------------------------- a chain of N cells
\* cell 1 = new Dynx(0) is the head; cell c + 1 = Dynx(() => cell c .value)
RECURSIVE TypedChain(_)
TypedChain(n) ==
    IF n = 1 THEN constructor(Blank, 1, 0, DYNAMIC)
    ELSE Wrapper(TypedChain(n - 1), n, 0, ReadExp(n - 1), DYNAMIC)

RECURSIVE LegacyChain(_)
LegacyChain(n) ==
    IF n = 1 THEN Legacy_constructor([Blank EXCEPT !.impl = "legacy"], 1, 0)
    ELSE Legacy_Wrapper(LegacyChain(n - 1), n, ReadExp(n - 1))

\* the chains the program builds, from two cells to all of them
Lengths == {n \in Cells : n >= 2}

InitChain ==
    \E n \in Lengths : InitFrom(TypedChain(n)) \/ InitFrom(LegacyChain(n))

\* the cells of the chain
InChain(c) == c = 1 \/ exp[c] # NoExp

\* the program assigns the head, calls update(true) on any cell of the chain
\* and attaches and detaches a filter on the second cell
NextChain ==
    \/ \E v \in Vals : SetValue(1, v)
    \/ \E c \in Cells : InChain(c) /\ Update(c, TRUE)
    \/ FilterSub(2, "inc", FALSE)
    \/ FilterUnsub(2, "inc")

SpecChain == InitChain /\ [][NextChain]_vars

\* ------------------------------------ expressions and filters that throw
\* cell 1 = new Dynx(0); the program assigns values and expressions, one of
\* which throws, attaches and detaches filters, one of which throws, and
\* calls update(), going on after a call that threw
TypedThrows == constructor(Blank, 1, 0, DYNAMIC)

LegacyThrows == Legacy_constructor([Blank EXCEPT !.impl = "legacy"], 1, 0)

InitThrows == InitFrom(TypedThrows) \/ InitFrom(LegacyThrows)

NextThrows ==
    \/ \E v \in Vals : SetValue(1, v)
    \/ \E e \in {ThrowExp, ConstExp(1)} : SetExp(1, e)
    \/ \E f \in {"inc", "bad"} : FilterSub(1, f, FALSE)
    \/ \E f \in {"inc", "bad"} : FilterUnsub(1, f)
    \/ \E force \in BOOLEAN : Update(1, force)

SpecThrows == InitThrows /\ [][NextThrows]_vars

\* ------------------------------------- invalid cells (test 'lifetime')
\* cell 1 = new Dynx(0, type) with an update listener is the source; cell 3 =
\* Dynx(() => cell 1 .value) depends on it; the typed program creates cell 2
\* = cell 1 .transform(x => x) at some moment
TypedInvalid(t) ==
    Wrapper(onUpdateSub(constructor(Blank, 1, 0, t), 1, UserListener(1), FALSE),
            3, 0, ReadExp(1), DYNAMIC)

LegacyInvalid ==
    Legacy_Wrapper(
        on(Legacy_constructor([Blank EXCEPT !.impl = "legacy"], 1, 0),
           1, "update", LegacyListener(1, 0), FALSE, 0),
        3, ReadExp(1))

InitInvalid ==
    \/ \E t \in {DYNAMIC, INVALID} : InitFrom(TypedInvalid(t))
    \/ InitFrom(LegacyInvalid)

NextInvalid ==
    \/ \E t \in Types : SetType(1, t)
    \/ \E v \in Vals : SetValue(1, v)
    \/ \E k \in Vals : SetExp(1, ConstExp(k))
    \/ Transform(1, 2)
    \/ Invalidate(1)
    \/ \E c \in {1, 2, 3} : ReadValue(c)

SpecInvalid == InitInvalid /\ [][NextInvalid]_vars

\* ------------------------------------------- conditionals over one cell
\* cell 1 = new Dynx(v, type) is the parent; the program builds conditionals
\* over it with if and else, freezes some of them, and assigns the parent
TypedCond(v, t) == [constructor(Blank, 1, v, t) EXCEPT !.made = 1]

LegacyCond(v) ==
    [Legacy_constructor([Blank EXCEPT !.impl = "legacy"], 1, v)
        EXCEPT !.made = 1]

InitConds ==
    \E v \in Vals :
        \/ \E t \in {DYNAMIC, STATIC} : InitFrom(TypedCond(v, t))
        \/ InitFrom(LegacyCond(v))

\* the entries the program adds: if(x => Boolean(x), 1), ifnot(1)
Entries == {IfThen(neg, 1) : neg \in BOOLEAN}

NextCond ==
    \/ \E entry \in Entries : made = 1 /\ PrototypeIf(1, entry)
    \/ \E c \in Cells, entry \in Entries : CondIf(c, entry)
    \/ \E c \in Cells : CondElse(c, 0)
    \/ \E v \in Vals : SetValue(1, v)
    \/ \E c \in Cells : listOf[c] # NoCell /\ SetType(c, STATIC)

SpecCond == InitConds /\ [][NextCond]_vars

\* ------------------------------------------ a chain of if and else calls
\* cell 1 = new Dynx(v, type) is the parent; the program writes one chain
\* p.if(c1, t1).if(c2, t2)...else(e), each call on the cell the call before
\* it returned, and assigns the parent
IfEntries == {IfThen(neg, t) : neg \in BOOLEAN, t \in Vals}

NextIfChain ==
    \/ \E entry \in IfEntries : made = 1 /\ PrototypeIf(1, entry)
    \/ \E entry \in IfEntries : chain.cell # NoCell /\ CondIf(chain.cell, entry)
    \/ \E e \in Vals : chain.cell # NoCell /\ CondElse(chain.cell, e)
    \/ \E v \in Vals : SetValue(1, v)

SpecIfChain == InitConds /\ [][NextIfChain]_vars

\* -------------------------------------- a chain of case and default calls
\* cell 1 = new Dynx(v, type) is the parent; the program writes one chain
\* p.switch().case(v1, t1)...default(d) with distinct v, each call on the
\* cell the call before it returned, and assigns the parent
Cases == {Case(k, t) : k \in Vals, t \in Vals}

Keys(list) == {list[i].key : i \in DOMAIN list}

NextSwitch ==
    \/ made = 1 /\ PrototypeSwitch(1)
    \/ \E entry \in Cases :
        /\ chain.cell # NoCell
        /\ entry.key \notin Keys(chain.list)
        /\ CondCase(chain.cell, entry)
    \/ \E d \in Vals : chain.cell # NoCell /\ CondDefault(chain.cell, d)
    \/ \E v \in Vals : SetValue(1, v)

SpecSwitch == InitConds /\ [][NextSwitch]_vars

\* ----------------------- listeners with priorities (test 'obeys priority')
\* cell 1 = new Dynx(0) with a dependent cell 2 = Dynx(() => cell1.value);
\* the program subscribes distinct functions to cell 1 with priorities, takes
\* some away again, assigns and updates
LegacyPriority ==
    Legacy_Wrapper(Legacy_constructor([Blank EXCEPT !.impl = "legacy"], 1, 0),
                   2, ReadExp(1))

InitPriority == InitFrom(LegacyPriority)

NextPriority ==
    \/ \E n \in Handlers, p \in Priorities : PriorityOn(1, n, p)
    \/ \E n \in Handlers : PriorityOff(1, n)
    \/ \E v \in Vals : SetValue(1, v)
    \/ \E force \in BOOLEAN : Update(1, force)

SpecPriority == InitPriority /\ [][NextPriority]_vars

\* --------------------- finalized cells (test 'can be made constant')
\* cells 1 and 2 = new Dynx(v), cell 3 = Dynx(() => cell1.value + cell2.value)
\* and cell 4 = Dynx(() => cell3.value); the program finalizes the derived
\* cells, makes cells constant, assigns the others and filters cell 3
LegacyFinal(v) ==
    Legacy_Wrapper(
        Legacy_Wrapper(
            Legacy_constructor(
                Legacy_constructor([Blank EXCEPT !.impl = "legacy"], 1, v),
                2, 0),
            3, SumExp(1, 2)),
        4, ReadExp(3))

InitFinal == \E v \in Vals : InitFrom(LegacyFinal(v))

NextFinal ==
    \/ \E c \in {3, 4} : LegacyFinalize(c)
    \/ \E c \in {1, 2}, v \in Vals : MakeConstant(c, v)
    \/ \E c \in {1, 2, 3} : MakeConstantAsIs(c)
    \/ \E c \in {1, 2}, v \in Vals : SetValue(c, v)
    \/ FilterSub(3, "inc", FALSE)
    \/ FilterUnsub(3, "inc")

SpecFinal == InitFinal /\ [][NextFinal]_vars

\* --------------------------------------- two cells that read each other
\* cells 2 and 3 = new Dynx(0); the program gives each the expression
\* () => other.value, puts the filter x => x + 1 on cell 2 and takes it away,
\* assigns the cells and updates cell 2
TypedCycle == constructor(constructor(Blank, 2, 0, DYNAMIC), 3, 0, DYNAMIC)

LegacyCycle ==
    Legacy_constructor(
        Legacy_constructor([Blank EXCEPT !.impl = "legacy"], 2, 0), 3, 0)

InitCycle == InitFrom(TypedCycle) \/ InitFrom(LegacyCycle)

Other(c) == 5 - c

NextCycle ==
    \/ \E c \in {2, 3} : SetExp(c, ReadExp(Other(c)))
    \/ \E c \in {2, 3}, v \in Vals : SetValue(c, v)
    \/ FilterSub(2, "inc", FALSE)
    \/ FilterUnsub(2, "inc")
    \/ \E force \in BOOLEAN : Update(2, force)

SpecCycle == InitCycle /\ [][NextCycle]_vars

\* ------------------------------------- a source, two readers and a reader
\* of the first reader: cell 1 = new Dynx(0), cells 2 and 3 =
\* Dynx(() => cell 1 .value), cell 4 = Dynx(() => cell 2 .value)
TypedFifo ==
    Wrapper(
      Wrapper(
        Wrapper(constructor(Blank, 1, 0, DYNAMIC), 2, 0, ReadExp(1), DYNAMIC),
        3, 0, ReadExp(1), DYNAMIC),
      4, 0, ReadExp(2), DYNAMIC)

LegacyFifo ==
    Legacy_Wrapper(
      Legacy_Wrapper(
        Legacy_Wrapper(
          Legacy_constructor([Blank EXCEPT !.impl = "legacy"], 1, 0),
          2, ReadExp(1)),
        3, ReadExp(1)),
      4, ReadExp(2))

InitFifo == InitFrom(TypedFifo) \/ InitFrom(LegacyFifo)

\* the program assigns the source, forces an update of the source or of its
\* first reader, and attaches and detaches a function to the update group of
\* the source and of its readers
NextFifo ==
    \/ \E v \in Vals : SetValue(1, v)
    \/ \E c \in {1, 2} : Update(c, TRUE)
    \/ \E c \in {1, 2, 3} : ListenerAdd(c, "updates", 1)
    \/ \E c \in {1, 2, 3} : ListenerUnsub(c, "updates", 1)

SpecFifo == InitFifo /\ [][NextFifo]_vars

\* ------------------------------ a consumer that reads its producer twice
\* cell 1 = new Dynx(1); cell 3 = new Dynx(0);
\* cell 2 = Dynx(() => cell 1 .value ? cell 1 .value : cell 3 .value)
TypedTwice ==
    Wrapper(constructor(constructor(Blank, 1, 1, DYNAMIC), 3, 0, DYNAMIC),
            2, 0, ForkExp(1, 1, 3), DYNAMIC)

LegacyTwice ==
    Legacy_Wrapper(
        Legacy_constructor(
            Legacy_constructor([Blank EXCEPT !.impl = "legacy"], 1, 1), 3, 0),
        2, ForkExp(1, 1, 3))

InitTwice == InitFrom(TypedTwice) \/ InitFrom(LegacyTwice)

\* the program assigns the producers, gives the consumer an expression that
\* reads cell 1 once or twice, updates the consumer, and attaches and
\* detaches a filter of the consumer
NextTwice ==
    \/ \E c \in {1, 3}, v \in Vals : SetValue(c, v)
    \/ \E e \in {ReadExp(1), ForkExp(1, 1, 3)} : SetExp(2, e)
    \/ \E force \in BOOLEAN : Update(2, force)
    \/ FilterSub(2, "inc", FALSE)
    \/ FilterUnsub(2, "inc")

SpecTwice == InitTwice /\ [][NextTwice]_vars

\* -------------------------------- a cascade that a dependent throws out of
\* cell 1 = new Dynx(0) with a function in its update group; cells 2 and 3 =
\* Dynx(() => cell 1 .value); the program gives cell 2 a filter that throws
TypedRecover ==
    Wrapper(
      Wrapper(
        onUpdateSub(constructor(Blank, 1, 0, DYNAMIC), 1, UserListener(1), FALSE),
        2, 0, ReadExp(1), DYNAMIC),
      3, 0, ReadExp(1), DYNAMIC)

LegacyRecover ==
    Legacy_Wrapper(
      Legacy_Wrapper(
        on(Legacy_constructor([Blank EXCEPT !.impl = "legacy"], 1, 0),
           1, "update", LegacyListener(1, 0), FALSE, 0),
        2, ReadExp(1)),
      3, ReadExp(1))

InitRecover == InitFrom(TypedRecover) \/ InitFrom(LegacyRecover)

\* the program assigns cell 1, attaches and detaches the throwing filter of
\* cell 2 and a filter of cell 3, as long as the queue that no driver empties
\* any more is short
ShortQueue == Len(updatesQueue) < MaxQueue

NextRecover ==
    \/ \E v \in Vals : ShortQueue /\ SetValue(1, v)
    \/ ShortQueue /\ FilterSub(2, "bad", FALSE)
    \/ ShortQueue /\ FilterUnsub(2, "bad")
    \/ ShortQueue /\ FilterSub(3, "inc", FALSE)
    \/ ShortQueue /\ FilterUnsub(3, "inc")

SpecRecover == InitRecover /\ [][NextRecover]_vars

\* ------------------------------------------------------------- claims
\* what the log of the latest call shows
Logged(e, c) == \E i \in DOMAIN log : log[i].ev = e /\ log[i].cell = c
Fired(e, c, n) ==
    \E i \in DOMAIN log : log[i].ev = e /\ log[i].cell = c /\ log[i].id = n
Count(e, c, n) ==
    Cardinality({i \in DOMAIN log :
                    log[i].ev = e /\ log[i].cell = c /\ log[i].id = n})
UserIds(list) == {list[i].id : i \in {j \in DOMAIN list : list[j].k = "user"}}

IsDerived(c) == exp[c] # NoExp \/ filters[c] # <<>>
IsConstantHolder(c) == exp[c] = NoExp /\ filters[c] = <<>>

\* the latest call was cell.value = v, it returned, and it changed the
\* value of the constant cell P
ChangingAssignment(P) ==
    /\ lastOp'.name = "setValue" /\ lastOp'.cell = P
    /\ ~thrown' /\ ~diverged'
    /\ IsConstantHolder(P)
    /\ value[P] # lastOp'.val

\* the cells whose stored value the cascade replaced by a different one
ChangedInCascade(P) == {P} \cup {x \in Cells : Logged("change", x)'}

\* D was recomputed: update() ran on it and each pre-update listener fired
Recomputed(D) ==
    /\ Logged("update", D)'
    /\ \A n \in UserIds(preupdates[D]) : Fired("preupdates", D, n)'

C1_Reacts(P, D) ==
    (ChangingAssignment(P) /\ IsDerived(D) /\ P \in reads[D]) => Recomputed(D)

C1_Ignores(P, D) ==
    (ChangingAssignment(P) /\ IsDerived(D)
        /\ reads[D] \cap ChangedInCascade(P) = {})
    => ~Logged("update", D)'

\* C1 as stated: a value-changing assignment to a constant cell P recomputes
\* every derived cell whose latest evaluation read P, and no derived cell
\* whose latest evaluation read neither P nor a cell changed in the cascade
C1_AsStated ==
    [][\A P \in Cells, D \in Cells : C1_Reacts(P, D) /\ C1_Ignores(P, D)]_vars

\* C1 (amended): dynamic minimal subscription.  A value-changing assignment
\* to a constant cell P whose type is not INVALID recomputes every derived
\* cell whose latest evaluation read P (its pre-update listeners fire), and
\* whatever the type of P it recomputes no derived cell whose latest
\* evaluation read neither P nor a cell whose value changed in the cascade
C1_MinimalSubscription ==
    [][\A P \in Cells, D \in Cells :
          /\ type[P] # INVALID => C1_Reacts(P, D)
          /\ C1_Ignores(P, D)]_vars

\* in1 was assigned a new value while fork was true: out was recomputed,
\* and its dependent tail with it
C1_Witness ==
    /\ lastOp.name = "setValue" /\ lastOp.cell = 2 /\ ~thrown
    /\ reads[4] = {1, 2} /\ value[1] = 1
    /\ Fired("preupdates", 4, 1) /\ Fired("preupdates", 5, 1)
    /\ Logged("change", 4)

\* what the expression e returns over the stored values
ExpValue(e) ==
    IF e.op = "const" THEN e.a
    ELSE IF e.op = "read" THEN value[e.a]
    ELSE IF e.op = "fork"
    THEN IF Truthy(value[e.a]) THEN value[e.b] ELSE value[e.c]
    ELSE (value[e.a] + value[e.b]) % (MaxVal + 1)

FilterValue(f, x) ==
    IF f = "inc" THEN (x + 1) % (MaxVal + 1) ELSE (2 * x) % (MaxVal + 1)

RECURSIVE Filtered(_, _, _)
Filtered(fs, i, x) ==
    IF i > Len(fs) THEN x ELSE Filtered(fs, i + 1, FilterValue(fs[i], x))

HasExp(c) == exp[c] # NoExp

\* D holds its expression over the current values, passed through its filters
Consistent(D) == value[D] = Filtered(filters[D], 1, ExpValue(exp[D]))

\* D read P in its latest evaluation, or read a derived cell that reaches P
RECURSIVE Reaches(_, _, _)
Reaches(D, P, n) ==
    \/ P \in reads[D]
    \/ n > 0 /\ \E x \in reads[D] : HasExp(x) /\ Reaches(x, P, n - 1)

DependsOn(D, P) == HasExp(D) /\ Reaches(D, P, Cardinality(Cells))

AssignmentReturned == lastOp.name = "setValue" /\ ~thrown /\ ~diverged

\* C2 as stated: when a top-level value assignment returns, every derived
\* cell that transitively depends on the assigned cell holds its expression
\* over the current values of the cells it reads, passed through its filters
C2_AsStated ==
    AssignmentReturned =>
        \A D \in Cells : DependsOn(D, lastOp.cell) => Consistent(D)

\* C2 (amended): transitive propagation.  In an acyclic graph none of whose
\* cells has type INVALID, after any sequence of top-level value
\* assignments every derived cell that transitively depends on the cell
\* assigned last holds its expression over the current values of the cells
\* it reads, passed through its filters
C2_TransitivePropagation ==
    (AssignmentReturned /\ \A c \in Cells : type[c] # INVALID) =>
        \A D \in Cells : DependsOn(D, lastOp.cell) => Consistent(D)

\* fork was assigned a new value in a graph without INVALID cells: out
\* changed, and tail, which reaches fork only through out, changed with it
C2_Witness ==
    /\ AssignmentReturned /\ lastOp.cell = 1
    /\ \A c \in Cells : type[c] # INVALID
    /\ HasExp(4) /\ HasExp(5) /\ 1 \notin reads[5] /\ DependsOn(5, 1)
    /\ Logged("change", 4) /\ Logged("change", 5)

\* the fields of cell c that a caller can observe
CellState(c) ==
    <<type[c], value[c], exp[c], filters[c], preupdates[c], updates[c],
      postupdates[c], typeChanges[c]>>

\* the latest call was made on cell c
CalledOn(c, names) == lastOp'.cell = c /\ lastOp'.name \in names

\* C3 as stated: STATIC is frozen.  Once the type of a cell is STATIC, no
\* public operation changes its stored value
C3_AsStated ==
    [][\A c \in Cells : type[c] = STATIC => value'[c] = value[c]]_vars

\* C4 as stated: finalize(v) on a cell whose type is not STATIC returns
\* leaving the cell with type STATIC and with the value v
C4_AsStated ==
    [][\A c \in Cells :
          (CalledOn(c, {"finalize"}) /\ type[c] # STATIC /\ ~thrown')
          => (type'[c] = STATIC /\ value'[c] = lastOp'.val)]_vars

Mutators == {"setValue", "setExp", "setType", "finalize"}

\* C5: on a STATIC cell, assigning value, expression or type and calling
\* finalize each throw and leave the value, expression, type, filters and
\* listener groups of the cell as they were; assigning an expression that is
\* not a function to a cell that is not STATIC throws and leaves the cell
\* unchanged
C5_FrozenMutationThrows ==
    [][\A c \in Cells :
          /\ (CalledOn(c, Mutators) /\ type[c] = STATIC)
             => (thrown' /\ CellState(c)' = CellState(c))
          /\ (CalledOn(c, {"setExp"}) /\ lastOp'.e = NotCallable)
             => (thrown' /\ CellState(c)' = CellState(c))]_vars

\* an expression was assigned to a STATIC cell that still holds a filter:
\* the call threw
C5_Witness ==
    /\ lastOp.name = "setExp" /\ lastOp.cell = 2 /\ lastOp.e = ConstExp(1)
    /\ thrown /\ type[2] = STATIC /\ filters[2] # <<>>

Attachers == {"onPreUpdateSub", "onUpdateSub", "onPostUpdateSub", "onFilterSub"}

\* C6 as stated: subscribing a listener or attaching a filter to a STATIC
\* cell stores the handler in no group of the cell and leaves its value
\* unchanged
C6_AsStated ==
    [][\A c \in Cells :
          (CalledOn(c, Attachers) /\ type[c] = STATIC)
          => CellState(c)' = CellState(c)]_vars

\* the value the assigned expression gives over the stored values
AssignedExpValue == ExpValue(lastOp.e)

\* after a value assignment the expression of the cell is absent
C7_ValueDropsExpression ==
    \A c \in Cells :
        (CalledOn(c, {"setValue"}) /\ ~thrown') => exp'[c] = NoExp

\* after an expression assignment the cell holds what the expression
\* evaluates to, passed through the filters of the cell
C7_ExpressionEvaluated(c) ==
    (CalledOn(c, {"setExp"}) /\ ~thrown')
    => value'[c] = Filtered(filters[c], 1, AssignedExpValue')

\* C7 as stated: value/expression exclusivity, for an expression assigned to
\* a cell of any type but STATIC
C7_AsStated ==
    [][/\ C7_ValueDropsExpression
       /\ \A c \in Cells : C7_ExpressionEvaluated(c)]_vars

\* C7 (amended): value/expression exclusivity.  After any value assignment
\* the expression of the cell reads as absent, and after an expression
\* assignment on a cell of type DYNAMIC or INHERIT the next value read
\* returns the result of evaluating that expression, passed through the
\* filters of the cell, not a previously assigned constant
C7_Exclusivity ==
    [][/\ C7_ValueDropsExpression
       /\ \A c \in Cells :
             type[c] \in {DYNAMIC, INHERIT} => C7_ExpressionEvaluated(c)]_vars

\* an expression reading cell 1 replaced an assigned constant of cell 2,
\* and the value of cell 2 changed to that of cell 1
C7_Witness ==
    /\ lastOp.name = "setExp" /\ lastOp.cell = 2 /\ lastOp.e = ReadExp(1)
    /\ ~thrown /\ type[2] = DYNAMIC /\ filters[2] = <<>>
    /\ Logged("change", 2) /\ value[2] = value[1]

\* the latest call fired no listener of cell c
NoListenerFired(c) ==
    \A i \in DOMAIN log : log[i].cell = c => log[i].ev \notin Groups

\* the latest call fired every listener that group g of cell c held
GroupFired(c, g, held) == \A n \in UserIds(held) : Fired(g, c, n)'

AllGroupsFired(c) ==
    /\ GroupFired(c, "preupdates", preupdates[c])
    /\ GroupFired(c, "updates", updates[c])
    /\ GroupFired(c, "postupdates", postupdates[c])

\* the latest call was update(force) on c and it returned
UpdateCalled(c, force) ==
    CalledOn(c, {"update"}) /\ lastOp'.flag = force /\ ~thrown'

\* the latest call assigned to c the value it held, and returned
SameValueAssigned(c) ==
    CalledOn(c, {"setValue"}) /\ lastOp'.val = value[c] /\ ~thrown'

\* the recomputed value of c equalled the stored one
Unchanged(c) == ~Logged("change", c)'

\* C8 as stated: update(false), and an assignment of a value equal to the
\* stored one, invoke no update, pre-update or post-update listener when the
\* recomputed value equals the stored value; update(true) invokes the
\* listeners of all three groups
C8_AsStated ==
    [][\A c \in Cells :
          /\ (UpdateCalled(c, FALSE) /\ Unchanged(c)) => NoListenerFired(c)'
          /\ (SameValueAssigned(c) /\ Unchanged(c)) => NoListenerFired(c)'
          /\ UpdateCalled(c, TRUE) => AllGroupsFired(c)]_vars

\* C8 (amended): force semantics.  update(false) invokes no update listener
\* when the recomputed value equals the stored value, but invokes every
\* pre-update and post-update listener; an assignment of a value equal to
\* the stored one to a cell that has no expression and no filters invokes
\* no listener; update(true) invokes the listeners of all three groups
C8_ForceSemantics ==
    [][\A c \in Cells :
          /\ (UpdateCalled(c, FALSE) /\ Unchanged(c))
             => /\ \A n \in UserIds(updates[c]) : ~Fired("updates", c, n)'
                /\ GroupFired(c, "preupdates", preupdates[c])
                /\ GroupFired(c, "postupdates", postupdates[c])
          /\ (SameValueAssigned(c) /\ IsConstantHolder(c))
             => NoListenerFired(c)'
          /\ UpdateCalled(c, TRUE) => AllGroupsFired(c)]_vars

\* update(false) left the value of cell 1 as it was: the pre-update and the
\* post-update listener ran, the update listener did not
C8_Witness ==
    /\ lastOp.name = "update" /\ lastOp.cell = 1 /\ ~lastOp.flag /\ ~thrown
    /\ ~Logged("change", 1)
    /\ Fired("preupdates", 1, 1) /\ Fired("postupdates", 1, 1)
    /\ ~Fired("updates", 1, 1)

\* how often the listeners of a group ran in the latest call
RanTimes(c, g, held, k) == \A n \in UserIds(held) : Count(g, c, n)' = k

\* every call of update() runs each pre-update and post-update listener
\* once, and each update listener once exactly when the value changed or
\* force is true
C9_UpdateCounts(c) ==
    (CalledOn(c, {"update"}) /\ ~thrown')
    => /\ RanTimes(c, "preupdates", preupdates[c], 1)
       /\ RanTimes(c, "postupdates", postupdates[c], 1)
       /\ RanTimes(c, "updates", updates[c],
                   IF ~Unchanged(c) \/ lastOp'.flag THEN 1 ELSE 0)

\* C9 as stated: the force semantics of the test, with an assignment of a
\* value identical to the current one performing no update and invoking no
\* listener
C9_AsStated ==
    [][\A c \in Cells :
          /\ C9_UpdateCounts(c)
          /\ SameValueAssigned(c) => log' = <<>>]_vars

\* C9 (amended): force semantics as the test asserts them.  Every call of
\* update(), forced or not, invokes each pre-update and each post-update
\* listener exactly once even when the value is unchanged; update listeners
\* are dispatched exactly when the recomputed value differs from the stored
\* one or force is true; assigning to a cell that has no expression and no
\* filters a value identical to its current one performs no update and
\* invokes no listener
C9_TestedForceSemantics ==
    [][\A c \in Cells :
          /\ C9_UpdateCounts(c)
          /\ (SameValueAssigned(c) /\ IsConstantHolder(c))
             => log' = <<>>]_vars

\* the legacy cell 1, holding no expression and no filter, was assigned the
\* value it held: nothing ran
C9_Witness ==
    /\ impl = "legacy" /\ lastOp.name = "setValue" /\ lastOp.cell = 1
    /\ ~thrown /\ value[1] = lastOp.val /\ initValue[1] = lastOp.val
    /\ exp[1] = NoExp /\ filters[1] = <<>> /\ log = <<>>

\* the listeners of c ran in the order pre-update, update, post-update; the
\* pre-update listeners read old as the value of c, the others read new
PhaseOrder(lg, c, old, new) ==
    /\ \A i \in DOMAIN lg :
          (lg[i].cell = c /\ lg[i].ev = "preupdates") => lg[i].val = old
    /\ \A i \in DOMAIN lg :
          (lg[i].cell = c /\ lg[i].ev \in {"updates", "postupdates"})
          => lg[i].val = new
    /\ \A i \in DOMAIN lg, j \in DOMAIN lg :
          (lg[i].cell = c /\ lg[j].cell = c /\ j < i)
          => ~ \/ lg[i].ev = "preupdates" /\ lg[j].ev \in Groups
               \/ lg[i].ev = "updates" /\ lg[j].ev = "postupdates"

\* C10 as stated: phase ordering.  A value assignment that changes a cell
\* from v_old to v_new runs its pre-update listeners first, reading v_old,
\* then its update listeners and then its post-update listeners, reading
\* v_new
C10_AsStated ==
    [][\A c \in Cells :
          (CalledOn(c, {"setValue"}) /\ ~thrown' /\ value'[c] # value[c])
          => (AllGroupsFired(c) /\ PhaseOrder(log', c, value[c], value'[c]))]_vars

\* the list of group g of cell c
ListOf(c, g) ==
    IF g = "preupdates" THEN preupdates[c]
    ELSE IF g = "updates" THEN updates[c]
    ELSE postupdates[c]

IsUser(l, n) == l.k = "user" /\ l.id = n

\* the list without any entry of the user function n
Without(list, n) == SelectSeq(list, LAMBDA l : ~IsUser(l, n))

FirstOf(list, n) == CHOOSE i \in DOMAIN list :
    IsUser(list[i], n) /\ \A j \in 1..(i - 1) : ~IsUser(list[j], n)

\* the list without the first entry of the user function n
WithoutFirst(list, n) ==
    IF n \in UserIds(list) THEN RemoveAt(list, FirstOf(list, n)) ELSE list

Unsubscribers == {"onPreUpdateUnsub", "onUpdateUnsub", "onPostUpdateUnsub"}

\* a function that group g of cell c does not hold is not invoked for that
\* group by a call that does not subscribe it
AbsentNeverInvoked(c, g, n) ==
    (n \notin UserIds(ListOf(c, g)) /\ ~CalledOn(c, {SubName(g)}))
    => ~Fired(g, c, n)'

\* C11 as stated: once unsubscribe(group, handler) has returned the group
\* does not hold the handler, so that no later mutation or update of the cell
\* invokes it, and the other handlers of the group keep their relative order
C11_AsStated ==
    [][\A c \in Cells, g \in Groups, n \in Handlers :
          /\ (CalledOn(c, {UnsubName(g)}) /\ lastOp'.val = n)
             => ListOf(c, g)' = Without(ListOf(c, g), n)
          /\ AbsentNeverInvoked(c, g, n)]_vars

\* C11: unsubscribe(group, handler) removes the first entry of the handler
\* from the group and leaves every other entry, a further entry of the same
\* handler included, in its place; a handler the group does not hold is
\* invoked by no mutation or update of the cell
C11_RemovesFirstEntry ==
    [][\A c \in Cells, g \in Groups, n \in Handlers :
          /\ (CalledOn(c, {UnsubName(g)}) /\ lastOp'.val = n)
             => ListOf(c, g)' = WithoutFirst(ListOf(c, g), n)
          /\ AbsentNeverInvoked(c, g, n)]_vars

\* the second of three update listeners has just been unsubscribed, and the
\* first and the third are left in their order
C11_Witness ==
    /\ lastOp.name = "onUpdateUnsub" /\ lastOp.val = 2
    /\ Len(updates[1]) = 2
    /\ updates[1][1].id = 1 /\ updates[1][2].id = 3

\* C12 as stated: a constant cell with base b whose filter list is F1..Fn
\* after any attach, detach or update() call stores Fn(...F1(b)...): every
\* recomputation filters the base, never an earlier filtered output
C12_AsStated ==
    \A c \in Constants :
        (~thrown /\ ~diverged) => value[c] = Filtered(filters[c], 1, Base(c))

\* the same, of the legacy implementation alone
C12_LegacyFiltersBase == impl = "legacy" => C12_AsStated

\* the top of the evaluation stack, NoCell for an empty stack or a marker
TopCell == IF childStack = <<>> THEN NoCell ELSE childStack[Len(childStack)]

\* the latest call invoked the function handed to an immune call of owner
BodyInvoked(owner, body) == Fired("immune", owner, body)

\* cell.executeImmune(fn) called outside of any expression on a cell that is
\* not the top of the stack
C13_Outside(c) ==
    (CalledOn(c, {"executeImmune"}) /\ TopCell # c)
    => /\ thrown'
       /\ childStack' = childStack
       /\ \A b \in Bodies : ~BodyInvoked(c, b)'

\* the expression assigned to cell c calls a.executeImmune(fn) on another
\* cell a, or calls c.executeImmune(fn) from within an immune block of c
C13_Inside(c) ==
    (CalledOn(c, {"setExp"}) /\ lastOp'.e.op = "immune"
        /\ type[c] \notin {STATIC, INVALID})
    => /\ lastOp'.e.a # c
          => /\ thrown'
             /\ childStack' = childStack \o <<c>>
             /\ \A a \in Cells, b \in Bodies : ~BodyInvoked(a, b)'
       /\ (lastOp'.e.a = c /\ lastOp'.e.c = BodyNested)
          => /\ thrown'
             /\ childStack' = childStack \o <<c, NoCell>>
             /\ ~BodyInvoked(c, BodyRead)'

\* C13: executeImmune(fn) on a cell that is not the top of the evaluation
\* stack, the stack being empty or topped by an immune marker or by another
\* cell, throws, does not invoke fn and leaves the stack as it was
C13_ImmuneNeedsTop ==
    [][impl = "typed" => \A c \in Cells : C13_Outside(c) /\ C13_Inside(c)]_vars

\* executeImmune was called outside of any expression while an immune marker
\* topped the stack, and it threw
C13_Witness ==
    /\ impl = "typed" /\ lastOp.name = "executeImmune" /\ thrown
    /\ Len(childStack) = 2 /\ childStack[2] = NoCell

\* the update-listener list of t holds a handle of C that is not obsolete
Subscribed(C, t) ==
    \E i \in DOMAIN updates[t] :
        updates[t][i].k = "handle" /\ updates[t][i].id = C
            /\ ~updates[t][i].obs

\* the expression of C reads, or reads and writes, t inside an immune block
ReadsImmune(C, t) == exp[C].op = "immune" /\ exp[C].b = t

\* an assignment to t recomputes no cell whose expression touches t only
\* inside an immune block
C14_NoRecompute(C, t) ==
    (ReadsImmune(C, t) /\ CalledOn(t, {"setValue"})) => ~Logged("update", C)'

\* assigning the read-then-write expression without an immune block: the
\* read subscribes C, so that the write re-runs the expression of C
C14_Rerun(C, t) ==
    (CalledOn(C, {"setExp"}) /\ lastOp'.e = MakeExp(t))
    => /\ ~thrown' /\ ~diverged'
       /\ Count("update", C, 0)' = 2
       /\ exp'[C] = [MakeExp(t) EXCEPT !.a = 1]
       /\ \E i \in DOMAIN updates'[t] :
             updates'[t][i].k = "handle" /\ updates'[t][i].id = C

\* C14: a cell read, or read and then written, inside an immune block during
\* the evaluation of C gains no subscription of C, and no later assignment to
\* it recomputes C; the same read-then-write outside of an immune block
\* subscribes C and runs the expression of C again
C14_Immunity ==
    [][/\ ReadsImmune(2, 1)' => ~Subscribed(2, 1)'
       /\ C14_NoRecompute(2, 1)
       /\ C14_Rerun(2, 1)]_vars

\* cell 1 was assigned while the expression of cell 2 had read and written it
\* inside an immune block, and cell 2 kept the value it had
C14_Witness ==
    /\ exp[2] = ImmuneExp(2, 1, BodyReadWrite) /\ ~thrown
    /\ lastOp.name = "setValue" /\ lastOp.cell = 1
    /\ value[1] # value[2]

\* the deepest nesting of update() activations during the latest call
Depth(lg, d) == \A i \in DOMAIN lg : lg[i].ev = "update" => lg[i].val <= d

\* every cell of the chain holds what its expression and filters give over
\* the cell before it
ChainSettled == \A c \in Cells : (c # 1 /\ InChain(c)) => Consistent(c)

\* C15: during the cascade that one assignment to the head of a chain of N
\* cells starts, at most two update() activations are nested, whatever N is,
\* and when the assignment returns every cell of the chain holds the value
\* the new head value implies
C15_StackSafety ==
    [][CalledOn(1, {"setValue"})
       => /\ ~thrown' /\ ~diverged'
          /\ Depth(log', 2)
          /\ ChainSettled']_vars

\* an assignment changed the head of the chain of all the cells, and the
\* last cell was recomputed in an activation nested in one other
C15_Witness ==
    /\ lastOp.name = "setValue" /\ lastOp.cell = 1
    /\ \A c \in Cells : InChain(c)
    /\ \E i \in DOMAIN log :
          /\ log[i].ev = "update" /\ log[i].val = 2
          /\ log[i].cell = CHOOSE c \in Cells : \A d \in Cells : d <= c

\* the expression of c throws, or one of its filters does
Faulty(c) ==
    \/ exp[c] = ThrowExp
    \/ \E i \in DOMAIN filters[c] : filters[c][i] \notin {"inc", "dbl"}

Evaluators == {"update", "setValue", "setExp", "onFilterSub", "onFilterUnsub"}

\* the exception of the expression or filter reaches the caller of update()
\* and of the filter attachment
C16_Reaches(c) ==
    (CalledOn(c, {"update", "onFilterSub"}) /\ Faulty(c)') => thrown'

\* C16 as stated: when an expression or a filter throws during update() or
\* during the assignment or filter attachment that triggered it, the
\* exception reaches the caller and the cell stores the value it stored
\* before that call
C16_AsStated ==
    [][\A c \in Cells :
          /\ C16_Reaches(c)
          /\ (CalledOn(c, Evaluators) /\ thrown') => value'[c] = value[c]]_vars

\* the same, of the legacy implementation alone
C16_LegacyKeepsValue ==
    [][\A c \in Cells :
          (impl = "legacy" /\ CalledOn(c, Evaluators) /\ thrown')
          => value'[c] = value[c]]_vars

\* the combinator c = src.transform(f) whose latest recomputation read src
IsTransformOf(c, src) == exp[c] = ReadExp(src) /\ reads[c] = {src}

\* C17 as stated: an INHERIT combinator whose recomputation reads only cells
\* of type INVALID has type INVALID afterwards; when the source is given a
\* valid type, the combinator is recomputed from the current value of the
\* source and is no longer INVALID itself
C17_AsStated ==
    [][/\ (CalledOn(2, {"transform"}) /\ type[1] = INVALID /\ ~thrown')
          => type'[2] = INVALID
       /\ (CalledOn(1, {"setType"}) /\ lastOp'.val = DYNAMIC /\ ~thrown'
             /\ type[1] = INVALID /\ type[2] = INVALID /\ IsTransformOf(2, 1))
          => /\ Logged("update", 2)'
             /\ value'[2] = value'[1]
             /\ type'[2] # INVALID]_vars

\* what does hold of the typed code: the combinator becomes INVALID, and is
\* recomputed from the source when the source leaves INVALID, and stays
\* INVALID
C17_StaysInvalid ==
    [][/\ (CalledOn(2, {"transform"}) /\ type[1] = INVALID /\ ~thrown')
          => type'[2] = INVALID
       /\ (CalledOn(1, {"setType"}) /\ lastOp'.val = DYNAMIC /\ ~thrown'
             /\ type[1] = INVALID /\ type[2] = INVALID /\ IsTransformOf(2, 1))
          => /\ Logged("update", 2)'
             /\ value'[2] = value'[1]
             /\ type'[2] = INVALID]_vars

\* the cell is marked invalid: type INVALID, or invalidate() was the latest
\* assignment to it
MarkedInvalid(c) ==
    IF impl = "typed" THEN type[c] = INVALID ELSE initValue[c] = InvalidValue

C18_Reads(c) ==
    /\ (CalledOn(c, {"getValue"}) /\ MarkedInvalid(c))
       => lastOp'.val = InvalidValue
    /\ (CalledOn(c, {"invalidate"}) /\ ~thrown') => MarkedInvalid(c)'
    /\ (CalledOn(c, {"setValue"}) /\ MarkedInvalid(c) /\ ~thrown')
       => value'[c] = lastOp'.val

\* C18 as stated: while a cell is marked invalid every read of its value
\* returns the INVALID sentinel, and after a value assignment the read
\* returns the assigned value
C18_AsStated == [][C18_Reads(1)]_vars

\* the same, of the legacy implementation alone
C18_LegacySentinel == [][impl = "legacy" => C18_Reads(1)]_vars

\* the calls of set type that take cell c out of INVALID and return
LeavesInvalid(c) ==
    /\ impl = "typed"
    /\ CalledOn(c, {"setType"}) /\ type[c] = INVALID /\ lastOp'.val # INVALID
    /\ ~thrown' /\ ~diverged'

\* what was assigned to c while it was INVALID: its expression, or its value
Assigned(c) == IF exp[c] # NoExp THEN ExpValue(exp[c]) ELSE value[c]

\* the cells that hold a live subscription to c
Dependents(c) == {d \in Cells : Subscribed(d, c)}

\* C19: assigning another type to a cell of type INVALID runs a forced
\* update: each update listener of the cell is called once, the cell holds
\* the value or the expression's value assigned while it was INVALID, and
\* each dependent is recomputed from it
C19_LeavingInvalidUpdates ==
    [][LeavesInvalid(1)
       => /\ RanTimes(1, "updates", updates[1], 1)
          /\ value'[1] = Assigned(1)
          /\ \A d \in Dependents(1) :
                Logged("update", d)' /\ value'[d] = Assigned(1)]_vars

\* the source left INVALID holding a value assigned while it was INVALID; its
\* listener ran and its dependent was recomputed to that value
C19_Witness ==
    /\ lastOp.name = "setType" /\ lastOp.cell = 1 /\ lastOp.val = DYNAMIC
    /\ Fired("updates", 1, 1) /\ Logged("update", 3)
    /\ Logged("change", 3) /\ value[3] = 1 /\ value[1] = 1

\* the conditional c can no longer be changed
Frozen(c) == IF impl = "typed" THEN type[c] = STATIC ELSE isFinal[c]

\* the condition list of the conditional c, given the fields of the cells
\* and the arrays
ListIn(lo, cs, c) == IF lo[c] = NoCell THEN <<>> ELSE cs[lo[c]]

IfThensOf(c) == ListIn(listOf, conds, c)

\* what a conditional with this list and else value gives when the parent
\* holds x
CondValue(list, x, else) == FirstThen(list, 1, x, else)

\* the call returned a cell that did not exist before
ReturnedNew(c) == returned' # c /\ returned' = made + 1

\* c.if(condition, then) on a frozen conditional returns a new conditional
\* over c's list and the new entry, and c keeps its value
C20_If(c) ==
    (CalledOn(c, {"if"}) /\ Frozen(c) /\ ~thrown')
    => /\ ReturnedNew(c)
       /\ ListIn(listOf', conds', returned')
             = Append(IfThensOf(c), IfThen(lastOp'.flag, lastOp'.val))
       /\ value'[returned']
             = CondValue(ListIn(listOf', conds', returned'),
                         value'[parent[c]], elseThen'[returned'])
       /\ value'[c] = value[c]

\* c.else(then) on a frozen conditional returns a new conditional over c's
\* list and the new else value, and c keeps its value
C20_Else(c) ==
    (CalledOn(c, {"else"}) /\ Frozen(c) /\ ~thrown')
    => /\ ReturnedNew(c)
       /\ ListIn(listOf', conds', returned') = IfThensOf(c)
       /\ elseThen'[returned'] = lastOp'.val
       /\ value'[returned']
             = CondValue(ListIn(listOf', conds', returned'),
                         value'[parent[c]], elseThen'[returned'])
       /\ value'[c] = value[c]

\* C20 as stated: on a conditional c that is already STATIC or final,
\* c.if(cond, then) and c.else(then) each return a new cell, distinct from
\* c, that evaluates over the condition list of c with the new entry, or
\* with the new else value, while c keeps its value
C20_AsStated == [][\A c \in Cells : C20_If(c) /\ C20_Else(c)]_vars

\* the parts that hold: if in the typed implementation, else in the legacy
\* one
C20_TypedIf == [][\A c \in Cells : impl = "typed" => C20_If(c)]_vars

C20_LegacyElse == [][\A c \in Cells : impl = "legacy" => C20_Else(c)]_vars

\* ------------------------------------------------------------------- C21
\* what the chain the program wrote gives for the parent's present value:
\* the then of the first pair, in attach order, whose condition holds, and
\* the else value (undefined without one) when none holds
ChainValue == FirstThen(chain.list, 1, value[chain.parent], chain.else)

\* every call of the chain returned a cell, and that cell holds ChainValue
ChainHolds ==
    chain.ok /\ (chain.cell # NoCell => value[chain.cell] = ChainValue)

\* C21: after the construction of a chain p.if(c1,t1).if(c2,t2)...else(e)
\* and after every later assignment to p, the cell the chain returned holds
\* the then of the first pair whose condition holds for p's value, and e
\* (undefined when no else was given) when none holds
C21_AsStated == ChainHolds

\* the part that holds: chains over a DYNAMIC parent in the typed
\* implementation, which change one conditional in place
C21_TypedDynamicParent == (impl = "typed" /\ type[1] = DYNAMIC) => ChainHolds

\* ------------------------------------------------------------------- C22
\* what the switch the program wrote gives for the parent's present value:
\* the then of the case whose value equals it, the default when there is none
CaseValue ==
    IF value[chain.parent] \in Keys(chain.list)
    THEN chain.list[CHOOSE i \in DOMAIN chain.list :
                       chain.list[i].key = value[chain.parent]].then
    ELSE chain.else

SwitchHolds ==
    chain.ok /\ (chain.cell # NoCell => value[chain.cell] = CaseValue)

\* C22: for any parent p, a STATIC one included, the cell returned by
\* p.switch().case(v1,t1)...default(d) holds the ti of the case whose vi
\* equals p's value and d when no case matches, after construction and after
\* every later assignment to p
C22_AsStated == SwitchHolds

\* the part that holds: a switch over a DYNAMIC parent in the typed
\* implementation
C22_TypedDynamicParent == (impl = "typed" /\ type[1] = DYNAMIC) => SwitchHolds

\* ------------------------------------------------------------------- C23
\* the user functions of a listener list, and the invocations of cell c's
\* update listeners that a log shows, each in order
UserFuncs(list) == SelectSeq(list, LAMBDA l : l.k = "user")

Invocations(lg, c) ==
    SelectSeq(lg, LAMBDA e : e.ev = "updates" /\ e.cell = c)

IdsOf(seq) == [i \in DOMAIN seq |-> seq[i].id]

\* the call subscribed the function at position i of the new list: it stands
\* behind every function of equal or higher priority, so behind those of its
\* priority that were subscribed before it, and in front of every function
\* of lower priority, and the others keep their order
PlacedAt(old, new, i) ==
    /\ RemoveAt(new, i) = old
    /\ \A j \in 1..(i - 1) : new[j].priority >= new[i].priority
    /\ \A j \in (i + 1)..Len(new) : new[j].priority < new[i].priority

PlacedByPriority(old, new, n) ==
    \E i \in DOMAIN new : IsUser(new[i], n) /\ PlacedAt(old, new, i)

\* one forced update invokes every subscribed function once, in the order
\* of the list
InvokedInListOrder(lg, list, c) ==
    IdsOf(Invocations(lg, c)) = IdsOf(UserFuncs(list))

\* C23 (legacy implementation): whatever the order of the calls
\* on('update', h, false, priority), one forced update invokes the cell's
\* update listeners in descending priority, and listeners of equal priority
\* in the order they were subscribed
C23_PriorityOrder ==
    [][/\ (CalledOn(1, {"on"}) /\ ~thrown')
          => PlacedByPriority(updates[1], updates'[1], lastOp'.val)
       /\ (CalledOn(1, {"update"}) /\ lastOp'.flag /\ ~thrown')
          => /\ InvokedInListOrder(log', updates[1], 1)
             /\ \A i \in DOMAIN updates[1], j \in DOMAIN updates[1] :
                   i < j => updates[1][i].priority >= updates[1][j].priority
      ]_vars

\* a forced update has invoked three functions, the one of priority 1 ahead
\* of two of priority 0, with the dependent's handle in the list as well
C23_Witness ==
    /\ impl = "legacy"
    /\ lastOp.name = "update" /\ lastOp.flag /\ ~thrown
    /\ IdsOf(Invocations(log, 1)) = <<3, 2, 1>>
    /\ [i \in 1..3 |-> UserFuncs(updates[1])[i].priority] = <<1, 0, 0>>
    /\ \E i \in DOMAIN updates[1] : updates[1][i].k = "handle"

\* ------------------------------------------------------------------- C24
\* isConstant and isFinal of the legacy implementation, over given fields
ConstantIn(fin, ex, c) == fin[c] /\ ex[c] = NoExp

\* a finalized derived cell: final, and its expression not dropped
FinalDerived(c) == isFinal[c] /\ exp[c] # NoExp

\* the cells the expression e reads when it is evaluated
Producers(e) ==
    IF e.op = "read" THEN {e.a}
    ELSE IF e.op = "sum" THEN {e.a, e.b}
    ELSE {}

\* what the expression e returns over the values val
ExpOver(e, val) ==
    IF e.op = "const" THEN e.a
    ELSE IF e.op = "read" THEN val[e.a]
    ELSE (val[e.a] + val[e.b]) % (MaxVal + 1)

\* the latest call was not constant() on c itself
NotMadeConstant(c) == ~CalledOn(c, {"constant"})

\* a finalized derived cell stays derived exactly while one of the cells its
\* expression reads is not constant
C24_WhileProducerVaries(c) ==
    (isFinal'[c] /\ exp[c] # NoExp /\ NotMadeConstant(c) /\ ~diverged')
    => (exp'[c] # NoExp
        <=> \E p \in Producers(exp[c]) : ~ConstantIn(isFinal', exp', p))

\* when it becomes constant it holds what its last evaluation gave: its
\* expression over the producers' values, through its filters
C24_KeepsLastEvaluation(c) ==
    (FinalDerived(c) /\ exp'[c] = NoExp /\ NotMadeConstant(c) /\ ~diverged')
    => /\ isFinal'[c]
       /\ value'[c] = Filtered(filters'[c], 1, ExpOver(exp[c], value'))

\* C24 (legacy implementation): a finalized derived cell is final but not
\* constant while its last evaluation read a cell that is not constant, and
\* it is constant, its expression dropped and its value that of the last
\* evaluation, by the end of the first recomputation in which every cell it
\* read is constant
C24_AsStated ==
    [][\A c \in {3, 4} :
          C24_WhileProducerVaries(c) /\ C24_KeepsLastEvaluation(c)]_vars

\* the part that holds with filters as well: when a cell is constant
C24_ConstancyPropagates ==
    [][\A c \in {3, 4} : C24_WhileProducerVaries(c)]_vars

\* the value part for a cell without filters
C24_UnfilteredKeepsValue ==
    [][\A c \in {3, 4} :
          filters'[c] = <<>> => C24_KeepsLastEvaluation(c)]_vars

\* ------------------------------------------------------------------- C25
\* the expressions of a and b read each other
ReadEachOther(a, b) ==
    a # b /\ b \in Producers(exp[a]) /\ a \in Producers(exp[b])

\* the latest call returned with the dispatch queue drained
Drained ==
    ~diverged /\ updatesQueue = <<>> /\ ~updatesInProgress

\* C25: a top-level mutation in a graph where the expressions of two cells
\* read each other terminates: the dispatch queue drains and the call
\* returns, instead of recomputing the two cells without bound
C25_AsStated ==
    (~thrown /\ \E a \in Cells, b \in Cells : ReadEachOther(a, b)) => Drained

\* the part that holds: two cells that copy each other settle, because a
\* recomputation that gives the stored value calls no listener
C25_CopiesSettle ==
    (~thrown /\ filters[2] = <<>> /\ ReadEachOther(2, 3)) => Drained

\* what the latest call queued, and what it invoked, of the update listeners
Sched(what) ==
    SelectSeq(sched, LAMBDA e : e.name = "updates" /\ e.what = what)

HandlesOf(list) == SelectSeq(list, LAMBDA e : e.k = "handle")

Who(e) == <<e.cell, e.k, e.id>>

\* the two lists name the same listeners of the same cells in the same order
SameListeners(a, b) ==
    /\ Len(a) = Len(b)
    /\ \A i \in DOMAIN a : Who(a[i]) = Who(b[i])

\* how many calls of update() were on the stack at the root trigger
RootDepth == (Sched("enqueue") \o Sched("invoke"))[1].depth

\* what the root trigger queued precedes in the queue, and so in the order of
\* invocation, what a nested trigger queued
RootFirst(queued) ==
    \A i, j \in DOMAIN queued :
        (queued[i].depth = RootDepth /\ queued[j].depth > RootDepth) => i < j

\* every listener in the list was invoked by the loop of the root trigger
ByDriver(invoked) == \A i \in DOMAIN invoked : invoked[i].depth = RootDepth

\* the latest call ran a cascade and returned
CascadeDone ==
    ~thrown /\ ~diverged /\ Sched("enqueue") \o Sched("invoke") # <<>>

\* C26 as stated: within one cascade the update listeners are invoked in
\* exactly the order in which they were queued, those the root trigger queued
\* before those a nested trigger queued, and a nested trigger invokes nothing
C26_AsStated ==
    CascadeDone =>
        /\ SameListeners(Sched("enqueue"), Sched("invoke"))
        /\ RootFirst(Sched("enqueue"))
        /\ ByDriver(Sched("invoke"))

\* C26 (amended): breadth-first FIFO dispatch of what is queued.  In the
\* typed implementation every update listener is queued and the loop of the
\* root trigger invokes them in exactly the order they were queued, a nested
\* trigger invoking nothing.  In the legacy implementation only the update
\* handles of dependent cells are queued and invoked so; a function the
\* program subscribed is never queued: the trigger of its cell, nested or
\* not, invokes it at once
C26_QueuedDispatch ==
    CascadeDone =>
        /\ RootFirst(Sched("enqueue"))
        /\ impl = "typed" =>
              /\ SameListeners(Sched("enqueue"), Sched("invoke"))
              /\ ByDriver(Sched("invoke"))
        /\ impl = "legacy" =>
              /\ Sched("enqueue") = HandlesOf(Sched("enqueue"))
              /\ SameListeners(Sched("enqueue"), HandlesOf(Sched("invoke")))
              /\ ByDriver(HandlesOf(Sched("invoke")))

\* a cascade in which the update of cell 2, run off the queue, queued the
\* handle of cell 4 behind the handle of cell 3 that the root trigger had
\* queued, and a function subscribed to cell 2 was invoked
C26_Witness ==
    /\ CascadeDone
    /\ \E i, j \in DOMAIN sched :
          /\ i < j
          /\ sched[i].what = "enqueue" /\ Who(sched[i]) = <<1, "handle", 3>>
          /\ sched[j].what = "enqueue" /\ Who(sched[j]) = <<2, "handle", 4>>
          /\ sched[j].depth > RootDepth
    /\ \E i \in DOMAIN sched :
          sched[i].what = "invoke" /\ Who(sched[i]) = <<2, "user", 1>>

\* nothing is left of a dispatch or of an evaluation
Settled ==
    /\ updatesQueue = <<>>
    /\ ~updatesInProgress
    /\ childStack = <<>>

\* C27 as stated: whenever a public call made by the program has returned
\* normally, the update queue is empty, its in-progress flag is false and the
\* evaluation context stack is empty
C27_AsStated == (lastOp # NoOp /\ ~thrown /\ ~diverged) => Settled

\* a call that starts with nothing left over and returns normally leaves
\* nothing over
C27_FromSettled ==
    [][(Settled /\ ~thrown' /\ ~diverged') => Settled']_vars

\* a call that threw out of an evaluation left the cell on the context stack
C27_LeftOver == thrown /\ childStack # <<>>

\* how many update listeners the call had queued, or invoked, by position p
\* of its record
CountUpTo(what, p) ==
    Cardinality({q \in 1..p : sched[q].name = "updates" /\ sched[q].what = what})

\* the entry at position i is the invocation of what the entry at position e
\* queued: the queue is first in, first out
InvocationOf(e, i) ==
    /\ sched[e].name = "updates" /\ sched[e].what = "enqueue"
    /\ sched[i].name = "updates" /\ sched[i].what = "invoke"
    /\ CountUpTo("invoke", i) = CountUpTo("enqueue", e)

\* a handle of cell d was queued, d replaced its handle, and the queued
\* handle was invoked after that
SupersededRun(d) ==
    \E e, r, i \in DOMAIN sched :
        /\ e < r /\ r < i
        /\ sched[e].k = "handle" /\ sched[e].id = d
        /\ sched[r].what = "refresh" /\ sched[r].id = d
        /\ InvocationOf(e, i)

\* C28 as stated: once a cell has replaced its update handle, no invocation
\* of an older handle of that cell runs the cell's update again; within one
\* cascade a cell is not recomputed through a handle superseded earlier in
\* that cascade
C28_AsStated == \A d \in Cells : ~SupersededRun(d)

\* the maximum, under STATIC < DYNAMIC < INVALID, of the types of the cells
\* of S; STATIC when there is none
MaxTypeOf(S, ty) ==
    IF S = {} THEN STATIC
    ELSE CHOOSE t \in {ty[p] : p \in S} : \A p \in S : t >= ty[p]

\* C29 as stated: after every recomputation of a cell created with type
\* INHERIT (cell 2, which transform creates), not only the first, the type of
\* the cell is the maximum of the types of the cells it read in that
\* recomputation, STATIC when it read none
C29_AsStated ==
    (impl = "typed" /\ exp[2] # NoExp /\ Logged("update", 2)
        /\ ~thrown /\ ~diverged)
    => type[2] = MaxTypeOf(reads[2], type)

\* the first recomputation, the one transform runs, gives the cell the maximum
\* of the types of the cells it read
C29_FirstRecomputation ==
    [][(CalledOn(2, {"transform"}) /\ ~thrown' /\ ~diverged')
       => type'[2] = MaxTypeOf(reads'[2], type')]_vars

\* once its type is resolved, no later recomputation changes the type of
\* the cell
C29_LaterRecomputationsKeepType ==
    [][(exp[2] # NoExp /\ type[2] # INHERIT /\ ~CalledOn(2, {"setType"}))
       => type'[2] = type[2]]_vars

\* the calls the claim names: an assignment to a producer or to the cell
\* itself, of a value or an expression, and attaching or detaching a filter
Suspendable == {"setValue", "setExp", "onFilterSub", "onFilterUnsub"}

\* C30 as stated: while the type of a cell (cell 2) is INVALID, no producer
\* change, filter attach or detach, or value or expression assignment
\* recomputes it: update() does not run on it, so its expression is not
\* evaluated, its value is not replaced by a recomputation and its update
\* listeners are not dispatched
C30_AsStated ==
    [][(type[2] = INVALID /\ lastOp'.name \in Suspendable)
       => ~Logged("update", 2)']_vars

\* the assignments of a value or an expression to a cell of type INVALID
\* store what is assigned and recompute nothing
C30_AssignmentsSuspended ==
    [][(type[2] = INVALID /\ CalledOn(2, {"setValue", "setExp"}))
       => ~Logged("update", 2)']_vars

\* a change of its producer recomputed the cell of type INVALID
C30_ProducerRecomputes ==
    /\ lastOp.name = "setValue" /\ lastOp.cell = 1 /\ ~thrown
    /\ type[2] = INVALID /\ Logged("update", 2) /\ Logged("change", 2)

\* attaching a filter recomputed the cell of type INVALID
C30_FilterRecomputes ==
    /\ lastOp.name = "onFilterSub" /\ lastOp.cell = 2 /\ ~thrown
    /\ type[2] = INVALID /\ Logged("update", 2)

\* the cell holds no expression, no filter and no listener of the groups
\* that update() releases
Compacted(c) ==
    /\ exp[c] = NoExp /\ filters[c] = <<>>
    /\ preupdates[c] = <<>> /\ updates[c] = <<>> /\ postupdates[c] = <<>>

\* C31 as stated: every cell whose type is STATIC retains no expression, no
\* filters and no listeners, whichever operation made it STATIC
C31_AsStated == \A c \in Cells : type[c] = STATIC => Compacted(c)

\* a call of update(), or of an operation that ends in update(), that leaves
\* the cell STATIC leaves it compacted
C31_UpdateCompacts ==
    [][\A c \in Cells :
          (CalledOn(c, {"update", "setExp", "onFilterSub", "onFilterUnsub"})
              /\ type'[c] = STATIC /\ ~thrown' /\ ~diverged')
          => Compacted(c)']_vars

\* a DYNAMIC cell was typed STATIC by assignment and keeps its expression
C31_TypedStaticKeepsExp ==
    /\ lastOp.name = "setType" /\ lastOp.cell = 2 /\ ~thrown
    /\ type[2] = STATIC /\ exp[2] # NoExp

\* finalize left a STATIC cell with a listener
C31_FinalizedKeepsListener ==
    /\ lastOp.name = "finalize" /\ lastOp.cell = 2 /\ ~thrown
    /\ type[2] = STATIC /\ updates[2] # <<>>

\* C32 as stated: no call of the constructor or of the type setter leaves a
\* cell with type INHERIT
C32_AsStated ==
    ~thrown =>
        /\ lastOp.name = "new" => \A c \in Cells : type[c] # INHERIT
        /\ lastOp.name = "setType" => type[lastOp.cell] # INHERIT

\* a recomputation of a cell whose producers are not INHERIT themselves
\* resolves INHERIT: update() leaves the cell with another type
C32_UpdateResolves ==
    [][(CalledOn(2, {"update"}) /\ ~thrown' /\ ~diverged')
       => type'[2] # INHERIT]_vars

\* the type setter was given INHERIT and stored it
C32_SetterStores ==
    /\ lastOp.name = "setType" /\ lastOp.cell = 2 /\ lastOp.val = INHERIT
    /\ ~thrown /\ type[2] = INHERIT

\* the constructor was given INHERIT and stored it
C32_ConstructorStores == lastOp.name = "new" /\ type[2] = INHERIT

\* how many handles of the consumer d that are not obsolete the update group
\* of the producer p holds
LiveHandles(p, d) ==
    Cardinality({i \in DOMAIN updates[p] :
                    /\ updates[p][i].k = "handle" /\ updates[p][i].id = d
                    /\ ~updates[p][i].obs})

\* how many times the latest call queued a handle of d from the group of p
QueuedTimes(p, d) ==
    Cardinality({i \in DOMAIN sched :
                    /\ sched[i].what = "enqueue" /\ sched[i].name = "updates"
                    /\ sched[i].cell = p
                    /\ sched[i].k = "handle" /\ sched[i].id = d})

\* C33 as stated: the update group of a producer holds at most one handle of
\* a consumer that is not obsolete, also when the expression of the consumer
\* reads the producer several times, and an assignment to the producer queues
\* the consumer at most once
C33_AsStated ==
    \A p, d \in Cells :
        /\ LiveHandles(p, d) <= 1
        /\ (lastOp.name = "setValue" /\ lastOp.cell = p) => QueuedTimes(p, d) <= 1

\* a consumer whose latest recomputation read the producer once holds one
\* handle that is not obsolete in its group
C33_OneReadOneHandle ==
    (exp[2] = ReadExp(1) /\ ~thrown /\ ~diverged) => LiveHandles(1, 2) = 1

\* the consumer read the producer twice and is queued twice by an assignment
C33_QueuedTwice ==
    /\ lastOp.name = "setValue" /\ lastOp.cell = 1 /\ ~thrown /\ ~diverged
    /\ QueuedTimes(1, 2) = 2

\* C34 as stated: every call leaves the evaluation context stack at exactly
\* the depth and contents it found, also when the expression or a filter
\* throws
C34_AsStated == [][~diverged' => childStack' = childStack]_vars

\* a call that returns normally leaves the stack as it found it
C34_NormalReturnKeepsStack ==
    [][(~thrown' /\ ~diverged') => childStack' = childStack]_vars

\* a call that throws out of the evaluation of the expression or of a filter
\* of cell 1 leaves cell 1 on the stack, on top of what the call found
C34_ThrowLeavesCell ==
    [][(thrown' /\ CalledOn(1, {"setExp", "setValue", "update",
                                "onFilterSub", "onFilterUnsub"})
          /\ (exp'[1] = ThrowExp \/ IndexOf(filters'[1], "bad") # 0))
       => childStack' = Append(childStack, 1)]_vars

\* an assignment of another value to cell 1 that returns
ChangingReturn ==
    /\ CalledOn(1, {"setValue"}) /\ value[1] # lastOp'.val
    /\ ~thrown' /\ ~diverged'

\* the assignment invoked the function of the update group of cell 1 and
\* recomputed cell 3, which reads cell 1
Dispatched == Fired("updates", 1, 1) /\ Logged("update", 3)

\* C35 as stated: after an exception has escaped a cascade the update queue
\* holds no entry and its in-progress flag is false, and the next assignment
\* to a cell invokes its update listeners and recomputes its dependents
\* before it returns
C35_AsStated ==
    [][/\ thrown' => (updatesQueue' = <<>> /\ ~updatesInProgress')
       /\ ChangingReturn => Dispatched']_vars

\* as long as no exception has left the in-progress flag set, an assignment
\* invokes the update listeners and recomputes the dependents
C35_WhileNotStuck ==
    [][(ChangingReturn /\ ~updatesInProgress) => Dispatched']_vars

\* once an exception has escaped the loop of a driver the in-progress flag
\* stays set and no later assignment recomputes a dependent
C35_StuckForGood ==
    [][updatesInProgress
       => /\ updatesInProgress'
          /\ CalledOn(1, {"setValue"}) => ~Logged("update", 3)']_vars

\* an assignment to cell 1 returned normally and recomputed nothing
C35_NothingDispatched ==
    /\ lastOp.name = "setValue" /\ lastOp.cell = 1 /\ ~thrown /\ ~diverged
    /\ Logged("update", 1) /\ ~Logged("update", 3) /\ updatesInProgress

\* an assignment to cell 1 that returns, made while cell 2 holds no
\* expression
ProducerAssigned ==
    /\ CalledOn(1, {"setValue"}) /\ exp[2] = NoExp
    /\ ~thrown' /\ ~diverged'

\* C36 as stated: once a value assignment has replaced the expression of a
\* cell (cell 2), a change of a cell the old expression read (cell 1) neither
\* changes the value of the cell nor invokes any of its pre-update, update or
\* post-update listeners
C36_AsStated ==
    [][ProducerAssigned
       => (value'[2] = value[2] /\ NoListenerFired(2)')]_vars

\* the value of a cell without expression and filters is not changed by an
\* assignment to the cell its old expression read, and its update listeners
\* are not invoked
C36_ValueKept ==
    [][(ProducerAssigned /\ filters[2] = <<>>)
       => /\ value'[2] = value[2]
          /\ \A n \in Handlers : ~Fired("updates", 2, n)']_vars

\* the handle that the old expression subscribed ran update() on the cell
\* that holds a value: its pre-update listener was invoked
C36_StaleHandleRuns ==
    /\ lastOp.name = "setValue" /\ lastOp.cell = 1 /\ ~thrown
    /\ exp[2] = NoExp /\ filters[2] = <<>> /\ type[2] = DYNAMIC
    /\ Logged("update", 2) /\ Fired("preupdates", 2, 1)

\* how many times update() ran on cell c in the latest call
Recomputations(c) == Count("update", c, 0)

\* C37: in the acyclic graph of a source, two readers and a reader of the
\* first reader, every top-level call returns with the dispatch queue emptied
\* and the dispatch over, and has recomputed each cell a finite number of
\* times: at most once, since each cell has one path from the source
C37_CascadeTerminates ==
    lastOp # NoOp
    => /\ ~diverged
       /\ updatesQueue = <<>> /\ ~updatesInProgress
       /\ \A c \in Cells : Recomputations(c) <= 1

\* an assignment changed the source and the cascade went through both levels
\* of readers before the call returned
C37_Witness ==
    /\ lastOp.name = "setValue" /\ lastOp.cell = 1 /\ ~thrown /\ ~diverged
    /\ Logged("change", 2) /\ Logged("change", 4)
    /\ Recomputations(2) = 1 /\ Recomputations(3) = 1 /\ Recomputations(4) = 1
    /\ updatesQueue = <<>> /\ ~updatesInProgress

====
